---------------------------- MODULE Spec2Model ----------------------------
(***************************************************************************)
(* Delegation ingestion engine of the Tezos delegation service: the        *)
(* PostgreSQL store (Repository), the TzKT source client (Client), the     *)
(* incremental poll loop, the historical backfill pipeline and the         *)
(* start/stop lifecycle of Service.                                        *)
(*                                                                         *)
(* Time is counted in whole seconds (TzKT timestamps carry no fraction).   *)
(* A row's id (a fresh UUID, never in conflict) and created_at are left    *)
(* out of the rows: no statement of the store reads them back for a        *)
(* decision.                                                               *)
(***************************************************************************)
EXTENDS Integers, Sequences, FiniteSets, TLC

(***************************************************************************)
(* Bounds of the model.                                                    *)
(***************************************************************************)
MaxHash == 2        \* operation hashes 1..MaxHash offered to Save/SaveBatch
MaxBatch == 2       \* longest batch handed to SaveBatch by the store driver
MaxSource == 4      \* most events the source ever holds
MaxLevel == 2       \* source levels are 1..MaxLevel
PollLimit == 2      \* page size of a cursor poll (100 in the service)
SeedLimit == 3      \* page size of the empty-store poll (1000 in the service)
HistPageSize == 1   \* page size of the backfill producer (500 in the service)
FlushThreshold == 2 \* buffered events that trigger a flush (1000 in the service)
ChanCap == 1        \* capacity of delegationsChan (10 in the client)
IndexBatchSize == 2 \* page size of IndexDelegations (100 in the service)
MaxRuns == 2        \* indexHistorical runs, IndexDelegations calls, per behaviour
MaxCalls == 2       \* StartPolling calls, and StopPolling calls, per run
MaxMixed == 2       \* longest source of mixed statuses a run starts from
MaxStart == 2       \* most events the source holds when StartPolling is called
MaxStatRows == 3    \* most rows in the store when GetStats is called
Burst == 1          \* size of the rate limiter's bucket (10 in the client)

VARIABLES
    schema,         \* which DDL built the delegations table
    store,          \* delegations table: sequence of rows, insertion order
    ret,            \* outcome of the last Repository call
    metadata,       \* the indexing_metadata row with id 1
    source,         \* the TzKT operations, in id (insertion) order
    now,            \* wall clock, seconds
    startLevel,     \* GetLastIndexedLevel() when the run began
    http,           \* a Client.GetDelegations call and the server's replies
    statusFilter,   \* the server applies the status parameter of a query
    historical,     \* config.HistoricalIndexing
    pollingStarted, \* Service.pollingStarted
    stopClosed,     \* Service.stopPolling has been closed
    pollingTicker,  \* Service.pollingTicker: 0 (nil) or an index of tickers
    tickers,        \* every time.Ticker created: [stopped, pending]
    panicked,       \* a call panicked (the process is gone)
    gauge,          \* metrics.LastIndexedLevel
    starts,         \* StartPolling calls: where each one is
    loops,          \* pollLoop goroutines: where each one is
    hist,           \* indexHistorical and its consumer goroutine
    prod,           \* the GetHistoricalDelegations goroutine
    chans,          \* delegationsChan and errorChan
    ctxDone,        \* the errgroup context of the backfill is cancelled
    index           \* IndexDelegations calls: where the running one is

storeVars == <<schema, store, ret, metadata>>
srcVars == <<source, now, startLevel, http, statusFilter>>
svcVars == <<historical, pollingStarted, stopClosed, pollingTicker, tickers,
             panicked, starts, gauge>>

bfVars == <<hist, prod, chans, ctxDone>>

vars == <<schema, store, ret, metadata, source, now, startLevel, http,
          statusFilter, historical, pollingStarted, stopClosed, pollingTicker,
          tickers, panicked, gauge, starts, loops, hist, prod, chans, ctxDone,
          index>>

(***************************************************************************)
(* Text <-> integer conversions.  The level and amount columns are TEXT.   *)
(***************************************************************************)
RECURSIVE FormatInt(_)
FormatInt(n) ==
    IF n < 10 THEN <<n>> ELSE Append(FormatInt(n \div 10), n % 10)

RECURSIVE CastBigint(_)
CastBigint(s) ==
    IF Len(s) = 0 THEN 0
    ELSE 10 * CastBigint(SubSeq(s, 1, Len(s) - 1)) + s[Len(s)]

\* config.HistoricalStartDate, "2021-01-01", in unix seconds
HistoricalStartDate == 1609459200

\* a block every 30 seconds; level 0 stands at the historical start date
BlockTimeOf(level) == HistoricalStartDate + 30 * level

(***************************************************************************)
(* Schema.  Migration 001 followed by migration 002 leaves operation_hash  *)
(* as the only unique key besides the primary key.  RunMigrations, which   *)
(* main() runs at every start, creates the table only when it is missing,  *)
(* with UNIQUE(delegator, level) and without an operation_hash column.     *)
(***************************************************************************)
MigratedSchema == [unique |-> "operation_hash", hasOperationHash |-> TRUE]

RunMigrations ==
    [unique |-> "delegator_level", hasOperationHash |-> FALSE]

Schemas == {MigratedSchema, RunMigrations}

(***************************************************************************)
(* domain.Delegation values offered to the store by its callers.           *)
(***************************************************************************)
Payloads ==
    { [level |-> 9,  delegator |-> "tz1a", amount |-> 5],
      [level |-> 9,  delegator |-> "tz1a", amount |-> 7],
      [level |-> 10, delegator |-> "tz1a", amount |-> 5] }

Delegation(h, p) ==
    [ Timestamp     |-> BlockTimeOf(p.level),
      Amount        |-> FormatInt(p.amount),
      Delegator     |-> p.delegator,
      Level         |-> FormatInt(p.level),
      BlockHash     |-> p.level,
      OperationHash |-> h ]

Delegations == { Delegation(h, p) : h \in 1..MaxHash, p \in Payloads }

Batches == UNION { [1..n -> Delegations] : n \in 0..MaxBatch }

(***************************************************************************)
(* One INSERT ... ON CONFLICT (operation_hash) DO UPDATE statement.        *)
(* Result: the new table, or an error (the statement changes nothing).     *)
(***************************************************************************)
Row(d) ==
    [ timestamp      |-> d.Timestamp,
      amount         |-> d.Amount,
      delegator      |-> d.Delegator,
      level          |-> d.Level,
      block_hash     |-> d.BlockHash,
      operation_hash |-> d.OperationHash ]

ConflictIndex(rows, d) ==
    { i \in 1..Len(rows) : rows[i].operation_hash = d.OperationHash }

\* the statement without its ON CONFLICT clause, on a table without the
\* unique key
UpsertNoConflictCheck(rows, d) == Append(rows, Row(d))

\* the statement with ON CONFLICT (delegator) as its conflict target
UpsertOnDelegator(rows, d) ==
    IF \E i \in 1..Len(rows) : rows[i].delegator = d.Delegator
    THEN [ i \in 1..Len(rows) |->
             IF rows[i].delegator = d.Delegator THEN Row(d) ELSE rows[i] ]
    ELSE Append(rows, Row(d))

Upsert(rows, d) ==
    IF ConflictIndex(rows, d) # {}
    THEN [ i \in 1..Len(rows) |->
             IF i \in ConflictIndex(rows, d) THEN Row(d) ELSE rows[i] ]
    ELSE Append(rows, Row(d))

\* the statement as the server executes it under a given schema:
\* "42703" undefined column, "" success
InsertSqlState(sch) == IF sch.hasOperationHash THEN "" ELSE "42703"

RECURSIVE UpsertAll(_, _)
UpsertAll(rows, ds) ==
    IF Len(ds) = 0 THEN rows
    ELSE UpsertAll(Upsert(rows, Head(ds)), Tail(ds))

(***************************************************************************)
(* Repository.SaveBatch: one transaction around a batch of statements.     *)
(* fault names what the database fails: "begin", "exec" (the last          *)
(* statement, with an error other than 23505), "duplicate_key" (the last   *)
(* statement, with 23505 on a key the ON CONFLICT clause does not name:    *)
(* the loop goes on, but the server has aborted the transaction and        *)
(* closing the batch returns the error), "close", "commit".  Every error   *)
(* return runs the deferred tx.Rollback, which discards what the           *)
(* statements did.                                                         *)
(***************************************************************************)
Faults == {"none", "begin", "exec", "duplicate_key", "close", "commit"}

\* the statements that took effect inside the transaction
Executed(ds, fault) ==
    IF fault \in {"exec", "duplicate_key"} THEN SubSeq(ds, 1, Len(ds) - 1)
    ELSE ds

\* the batch sent on the pool, outside any transaction
SaveBatchNoTransaction(sch, rows, ds, fault) ==
    IF Len(ds) = 0 THEN [err |-> FALSE, rows |-> rows]
    ELSE IF fault = "begin" \/ InsertSqlState(sch) # ""
    THEN [err |-> TRUE, rows |-> rows]
    ELSE [err |-> fault # "none",
          rows |-> UpsertAll(rows, Executed(ds, fault))]

SaveBatch(sch, rows, ds, fault) ==
    LET tx == UpsertAll(rows, Executed(ds, fault))
        aborted == InsertSqlState(sch) # ""
                     \/ fault \in {"exec", "duplicate_key"}
    IN IF Len(ds) = 0 THEN [err |-> FALSE, rows |-> rows]
       ELSE IF fault = "begin" THEN [err |-> TRUE, rows |-> rows]
       ELSE IF aborted \/ fault \in {"close", "commit"}
       THEN [err |-> TRUE, rows |-> rows]
       ELSE [err |-> FALSE, rows |-> tx]

(***************************************************************************)
(* Repository.Save: the statement has eight parameters and Exec is given   *)
(* seven values (OperationHash is not passed), so the driver rejects the   *)
(* call before anything is sent.                                           *)
(***************************************************************************)
SaveParams == 8
SaveArgs == 7

Save(sch, rows, d, fault) ==
    IF SaveArgs # SaveParams \/ fault # "none" \/ InsertSqlState(sch) # ""
    THEN [err |-> TRUE, rows |-> rows]
    ELSE [err |-> FALSE, rows |-> Upsert(rows, d)]

(***************************************************************************)
(* Repository.GetLastIndexedLevel: MAX(CAST(level AS BIGINT)), 0 when the  *)
(* table is empty.                                                         *)
(***************************************************************************)
MaxOf(S) == CHOOSE m \in S : \A x \in S : x <= m

GetLastIndexedLevel(rows) ==
    IF Len(rows) = 0 THEN 0
    ELSE MaxOf({ CastBigint(rows[i].level) : i \in 1..Len(rows) })

(***************************************************************************)
(* Repository.FindAll(nil): every row, latest timestamp first (rows of one *)
(* timestamp in table order); operation_hash is not selected, so the       *)
(* field keeps its zero value.                                             *)
(***************************************************************************)
Scan(r) ==
    [ Timestamp     |-> r.timestamp,
      Amount        |-> r.amount,
      Delegator     |-> r.delegator,
      Level         |-> r.level,
      BlockHash     |-> r.block_hash,
      OperationHash |-> 0 ]

Latest(rows) ==
    CHOOSE i \in 1..Len(rows) :
        \A j \in 1..Len(rows) :
            \/ rows[j].timestamp < rows[i].timestamp
            \/ rows[j].timestamp = rows[i].timestamp /\ j >= i

Without(rows, i) == SubSeq(rows, 1, i - 1) \o SubSeq(rows, i + 1, Len(rows))

RECURSIVE OrderByTimestampDesc(_)
OrderByTimestampDesc(rows) ==
    IF Len(rows) = 0 THEN <<>>
    ELSE <<rows[Latest(rows)]>>
         \o OrderByTimestampDesc(Without(rows, Latest(rows)))

FindAll(rows) ==
    LET sorted == OrderByTimestampDesc(rows)
    IN [ i \in 1..Len(sorted) |-> Scan(sorted[i]) ]

Identities(rows) == { rows[i].operation_hash : i \in 1..Len(rows) }

RowsOf(rows, h) == { i \in 1..Len(rows) : rows[i].operation_hash = h }

(***************************************************************************)
(* ret: what the last Repository call returned, and how many statements of *)
(* a SaveBatch hit an existing row.                                        *)
(***************************************************************************)
Conflicts(rows, ds) ==
    Cardinality({ i \in 1..Len(ds) :
        \/ ds[i].OperationHash \in Identities(rows)
        \/ \E j \in 1..(i - 1) : ds[j].OperationHash = ds[i].OperationHash })

NoRet == [op |-> "none", err |-> FALSE, conflicts |-> 0]

\* what a SaveBatch call leaves in ret
SaveBatchRet(rows, ds, r) ==
    [op |-> "SaveBatch", err |-> r.err,
     conflicts |-> IF r.err THEN 0 ELSE Conflicts(rows, ds)]

(***************************************************************************)
(* TzKT source.  An operation: [id, level, timestamp, block, hash, sender, *)
(* amount, status]; the source keeps them in id order and only appends.    *)
(***************************************************************************)
SourceEvent(i, level, status) ==
    [ id |-> i, level |-> level, timestamp |-> BlockTimeOf(level),
      block |-> level, hash |-> i, sender |-> "tz1a", amount |-> 5,
      status |-> status ]

Min(a, b) == IF a < b THEN a ELSE b

Take(s, n) == SubSeq(s, 1, Min(n, Len(s)))

Drop(s, n) == SubSeq(s, Min(n, Len(s)) + 1, Len(s))

\* an optional query parameter (a nil pointer in the request struct)
Unset == <<>>

Set(v) == <<v>>

\* Client.buildQueryParams + the server: status=applied is always sent,
\* sort.asc=id, level.ge, timestamp.ge, offset, limit
Matches(e, params) ==
    /\ (statusFilter => e.status = "applied")
    /\ (params.LevelGte # Unset => e.level >= params.LevelGte[1])
    /\ (params.TimestampGte # Unset => e.timestamp >= params.TimestampGte[1])

GetDelegations(src, params) ==
    LET hit(e) == Matches(e, params) IN
    Take(Drop(SelectSeq(src, hit), params.Offset), params.Limit)

GetDelegationsSince(src, timestamp, limit) ==
    GetDelegations(src, [Limit |-> limit, Offset |-> 0, LevelGte |-> Unset,
                         TimestampGte |-> Set(timestamp)])

GetDelegationsFromLevel(src, level, limit) ==
    GetDelegations(src, [Limit |-> limit, Offset |-> 0, LevelGte |-> Set(level),
                         TimestampGte |-> Unset])

(***************************************************************************)
(* indexing_metadata: one row, inserted with (1, 0, NULL) when the table   *)
(* is created.  Repository.UpdateIndexingMetadata writes it and            *)
(* GetIndexingMetadata reads it; no code of the service calls either.      *)
(***************************************************************************)
NoMetadata == [last_indexed_level |-> 0, last_indexed_timestamp |-> Unset]

UpdateIndexingMetadata(level, timestamp) ==
    [last_indexed_level |-> level, last_indexed_timestamp |-> Set(timestamp)]

GetIndexingMetadata(md) == md

(***************************************************************************)
(* Client.GetDelegations as HTTP attempts.  NewClient configures the HTTP  *)
(* client with SetRetryCount(maxRetries) and one retry condition: after an *)
(* attempt the condition decides whether another follows, up to            *)
(* maxRetries retries.  http is [pc, script, attempts, last, result,       *)
(* payload]; script[i] is what the server does to the i-th attempt, and    *)
(* the body of a reply is the number of its attempt.                       *)
(***************************************************************************)
MaxRetries == 3

StatusCodes == {200, 400, 404, 429, 500, 503}

Reply(err, code, body) == [err |-> err, code |-> code, body |-> body]

\* a transport error, or a response with a status code
Replies(i) ==
    { Reply(TRUE, 0, 0) } \cup { Reply(FALSE, c, i) : c \in StatusCodes }

Scripts ==
    { sc \in [1..(MaxRetries + 1) -> UNION { Replies(i) : i \in 1..(MaxRetries + 1) }] :
        \A i \in 1..(MaxRetries + 1) : sc[i] \in Replies(i) }

\* http is the call [pc, script, attempts, last, result, payload], the
\* caller's context ctx ("background", "pending" or "cancelled"), the
\* limiter's bucket tokens and whether Wait has granted this call a token
NoCall == [pc |-> "idle", script |-> <<>>, attempts |-> 0,
           last |-> Reply(FALSE, 0, 0), result |-> "none", payload |-> 0,
           ctx |-> "background", tokens |-> 0, granted |-> FALSE]

\* a retry condition that leaves out 429
RetryOnServerErrorOnly(r) == r.err \/ r.code >= 500

\* a retry condition that retries every status but 200
RetryUnlessOk(r) == r.err \/ r.code # 200

\* err != nil || r.StatusCode() >= 500 || r.StatusCode() == 429
RetryCondition(r) == r.err \/ r.code >= 500 \/ r.code = 429

\* GetDelegations is called and calls c.rateLimiter.Wait(ctx)
ClientCall ==
    /\ http.pc = "idle"
    /\ http' = [http EXCEPT !.pc = "limiter"]
    /\ UNCHANGED <<storeVars, source, now, startLevel, svcVars, loops, bfVars,
                   index, statusFilter>>

\* a call that goes on to its request whatever Wait returned
LimiterWaitErrorIgnored(granted) ==
    /\ http.pc = "limiter"
    /\ http.ctx = "cancelled" \/ http.tokens > 0
    /\ http' = IF granted /\ http.tokens > 0
               THEN [http EXCEPT !.pc = "attempt", !.tokens = @ - 1,
                                 !.granted = TRUE]
               ELSE [http EXCEPT !.pc = "attempt"]
    /\ UNCHANGED <<storeVars, source, now, startLevel, svcVars, loops, bfVars,
                   index, statusFilter>>

\* rate.Limiter.Wait returns: nil with a token taken from the bucket, or
\* the context's error once the context is done (either, when the token
\* arrives as the context ends); on the error GetDelegations returns
\* "rate limiter error"
LimiterWait(granted) ==
    /\ http.pc = "limiter"
    /\ http.ctx = "cancelled" \/ http.tokens > 0
    /\ granted => http.tokens > 0
    /\ ~granted => http.ctx = "cancelled"
    /\ http' = IF granted
               THEN [http EXCEPT !.pc = "attempt", !.tokens = @ - 1,
                                 !.granted = TRUE]
               ELSE [http EXCEPT !.pc = "returned", !.result = "error"]
    /\ UNCHANGED <<storeVars, source, now, startLevel, svcVars, loops, bfVars,
                   index, statusFilter>>

\* rate.Every(100ms): the bucket gains a token, up to the burst
TokenRefill ==
    /\ http.tokens < Burst
    /\ http' = [http EXCEPT !.tokens = @ + 1]
    /\ UNCHANGED <<storeVars, source, now, startLevel, svcVars, loops, bfVars,
                   index, statusFilter>>

\* the caller's context ends while the call waits for its token
CtxCancel ==
    /\ http.pc = "limiter"
    /\ http.ctx = "pending"
    /\ http' = [http EXCEPT !.ctx = "cancelled"]
    /\ UNCHANGED <<storeVars, source, now, startLevel, svcVars, loops, bfVars,
                   index, statusFilter>>

\* the server's reply to the n-th attempt (a server keeps answering as it
\* last did once the script is used up)
ReplyTo(n) == http.script[Min(n, Len(http.script))]

\* an HTTP client that allows one retry more than it was configured for
HttpAttemptOneMore ==
    /\ http.pc = "attempt"
    /\ LET n == http.attempts + 1
           r == ReplyTo(n)
       IN http' = IF http.ctx = "cancelled"
                  THEN [http EXCEPT !.last = Reply(TRUE, 0, 0),
                                    !.pc = "respond"]
                  ELSE [http EXCEPT
                          !.attempts = n,
                          !.last = r,
                          !.pc = IF RetryCondition(r) /\ n <= MaxRetries + 1
                                 THEN "wait" ELSE "respond"]
    /\ UNCHANGED <<storeVars, source, now, startLevel, svcVars, loops, bfVars,
                   index, statusFilter>>

\* one HTTP attempt and the decision to retry; with a context that is
\* done the transport returns its error before anything is sent and the
\* client does not retry
HttpAttempt ==
    /\ http.pc = "attempt"
    /\ LET n == http.attempts + 1
           r == ReplyTo(n)
       IN http' = IF http.ctx = "cancelled"
                  THEN [http EXCEPT !.last = Reply(TRUE, 0, 0),
                                    !.pc = "respond"]
                  ELSE [http EXCEPT
                          !.attempts = n,
                          !.last = r,
                          !.pc = IF RetryCondition(r) /\ n <= MaxRetries
                                 THEN "wait" ELSE "respond"]
    /\ UNCHANGED <<storeVars, source, now, startLevel, svcVars, loops, bfVars,
                   index, statusFilter>>

\* the retry wait time has passed
RetryWait ==
    /\ http.pc = "wait"
    /\ http' = [http EXCEPT !.pc = "attempt"]
    /\ UNCHANGED <<storeVars, source, now, startLevel, svcVars, loops, bfVars,
                   index, statusFilter>>

\* err != nil, then StatusCode() != 200, then json.Unmarshal
ClientReturn ==
    /\ http.pc = "respond"
    /\ http' = IF http.last.err \/ http.last.code # 200
               THEN [http EXCEPT !.pc = "returned", !.result = "error"]
               ELSE [http EXCEPT !.pc = "returned", !.result = "ok",
                                 !.payload = http.last.body]
    /\ UNCHANGED <<storeVars, source, now, startLevel, svcVars, loops, bfVars,
                   index, statusFilter>>

(***************************************************************************)
(* Service.convertToDomainDelegations                                      *)
(***************************************************************************)
ToDomain(d) ==
    [ Timestamp     |-> d.timestamp,
      Amount        |-> FormatInt(d.amount),
      Delegator     |-> d.sender,
      Level         |-> FormatInt(d.level),
      BlockHash     |-> d.block,
      OperationHash |-> d.hash ]

\* the conversion without its status check
convertEveryStatus(page) == [ i \in 1..Len(page) |-> ToDomain(page[i]) ]

convertToDomainDelegations(page) ==
    LET applied(d) == d.status = "applied"
        kept == SelectSeq(page, applied)
    IN [ i \in 1..Len(kept) |-> ToDomain(kept[i]) ]

(***************************************************************************)
(* Service.pollOnce, in the three calls it makes.  loops[l] is             *)
(* [pc, ticker, lastLevel, page, outcome, errors]; ticker is the one its   *)
(* StartPolling call created, lastLevel and page are pollOnce's locals,    *)
(* outcome is how its last pollOnce ended and errors how many times that   *)
(* pollOnce called metrics.PollingErrors.Inc().                            *)
(***************************************************************************)
ThirtyDays == 2592000

Loops == 1..MaxCalls

NoLoop == [pc |-> "none", ticker |-> 0, lastLevel |-> 0, page |-> <<>>,
           outcome |-> "none", errors |-> 0]

Alive == ~panicked

\* metrics.UpdateLastIndexedLevel(level): the value the gauge takes
UpdateLastIndexedLevel(level) == level

\* s.repo.GetLastIndexedLevel() and, when it succeeds, the gauge update
PollRead(l, ok) ==
    /\ Alive
    /\ loops[l].pc = "read"
    /\ loops' = [loops EXCEPT ![l] =
         IF ok
         THEN [@ EXCEPT !.pc = "fetch",
                        !.lastLevel = GetLastIndexedLevel(store)]
         ELSE [@ EXCEPT !.pc = "select", !.outcome = "db_error",
                        !.errors = 1]]
    /\ gauge' = IF ok THEN UpdateLastIndexedLevel(GetLastIndexedLevel(store))
                ELSE gauge
    /\ UNCHANGED <<storeVars, srcVars, bfVars, index, historical,
                   pollingStarted, stopClosed, pollingTicker, tickers,
                   panicked, starts>>

\* a poll that asks again from the level it read
PollRequestFromLastLevel(lastLevel, t) ==
    IF lastLevel = 0
    THEN [call |-> "GetDelegationsSince", from |-> t - ThirtyDays,
          limit |-> SeedLimit]
    ELSE [call |-> "GetDelegationsFromLevel", from |-> lastLevel,
          limit |-> PollLimit]

\* the call pollOnce makes to the client, at time t
PollRequest(lastLevel, t) ==
    IF lastLevel = 0
    THEN [call |-> "GetDelegationsSince", from |-> t - ThirtyDays,
          limit |-> SeedLimit]
    ELSE [call |-> "GetDelegationsFromLevel", from |-> lastLevel + 1,
          limit |-> PollLimit]

PollPageOf(request) ==
    IF request.call = "GetDelegationsSince"
    THEN GetDelegationsSince(source, request.from, request.limit)
    ELSE GetDelegationsFromLevel(source, request.from, request.limit)

PollPage(l) == PollPageOf(PollRequest(loops[l].lastLevel, now))

\* PollingErrors.Inc() calls on a failed fetch: none where the store was
\* empty (GetDelegationsSince), one on the cursor branch
FetchErrorsCounted(lastLevel) == IF lastLevel = 0 THEN 0 ELSE 1

\* a fetch whose failure ends the loop instead of the tick
PollFetchFatal(l, ok) ==
    /\ Alive
    /\ loops[l].pc = "fetch"
    /\ loops' = [loops EXCEPT ![l] =
         IF ~ok
         THEN [@ EXCEPT !.pc = "exited", !.lastLevel = 0,
                        !.outcome = "fetch_error",
                        !.errors = FetchErrorsCounted(loops[l].lastLevel)]
         ELSE IF Len(PollPage(l)) = 0
         THEN [@ EXCEPT !.pc = "select", !.lastLevel = 0,
                        !.outcome = "empty", !.errors = 0]
         ELSE [@ EXCEPT !.pc = "save", !.page = PollPage(l)]]
    /\ UNCHANGED <<storeVars, srcVars, bfVars, index, svcVars>>

\* s.tzktClient.GetDelegationsSince / GetDelegationsFromLevel
PollFetch(l, ok) ==
    /\ Alive
    /\ loops[l].pc = "fetch"
    /\ loops' = [loops EXCEPT ![l] =
         IF ~ok
         THEN [@ EXCEPT !.pc = "select", !.lastLevel = 0,
                        !.outcome = "fetch_error",
                        !.errors = FetchErrorsCounted(loops[l].lastLevel)]
         ELSE IF Len(PollPage(l)) = 0
         THEN [@ EXCEPT !.pc = "select", !.lastLevel = 0,
                        !.outcome = "empty", !.errors = 0]
         ELSE [@ EXCEPT !.pc = "save", !.page = PollPage(l)]]
    /\ UNCHANGED <<storeVars, srcVars, bfVars, index, svcVars>>

\* s.repo.SaveBatch(convertToDomainDelegations(delegations))
PollSave(l, fault) ==
    /\ Alive
    /\ loops[l].pc = "save"
    /\ LET r == SaveBatch(schema, store,
                          convertToDomainDelegations(loops[l].page), fault)
       IN /\ store' = r.rows
          /\ ret' = SaveBatchRet(store,
                       convertToDomainDelegations(loops[l].page), r)
          /\ loops' = [loops EXCEPT ![l] =
               [@ EXCEPT !.pc = "select", !.lastLevel = 0, !.page = <<>>,
                  !.outcome = IF r.err THEN "save_error" ELSE "saved",
                  !.errors = 0]]
          /\ gauge' = IF ~r.err /\ loops[l].lastLevel # 0
                      THEN UpdateLastIndexedLevel(loops[l].lastLevel + 1)
                      ELSE gauge
    /\ UNCHANGED <<schema, metadata, srcVars, bfVars, index, historical,
                   pollingStarted, stopClosed, pollingTicker, tickers,
                   panicked, starts>>

(***************************************************************************)
(* Service.pollLoop: pollOnce once, then select over the ticker channel    *)
(* and the stop channel.  The loop reads s.pollingTicker without the       *)
(* mutex: it sees the ticker of its own StartPolling call or one that a    *)
(* later call has stored since.                                            *)
(***************************************************************************)
LoopFirst(l) ==
    /\ Alive
    /\ loops[l].pc = "first"
    /\ loops' = [loops EXCEPT ![l].pc = "read"]
    /\ UNCHANGED <<storeVars, srcVars, bfVars, index, svcVars>>

LoopTick(l) ==
    /\ Alive
    /\ loops[l].pc = "select"
    /\ \E t \in loops[l].ticker..Len(tickers) :
          /\ tickers[t].pending
          /\ tickers' = [tickers EXCEPT ![t].pending = FALSE]
    /\ loops' = [loops EXCEPT ![l].pc = "read"]
    /\ UNCHANGED <<storeVars, srcVars, bfVars, index, historical, pollingStarted,
                   stopClosed, pollingTicker, panicked, starts, gauge>>

LoopStopped(l) ==
    /\ Alive
    /\ loops[l].pc = "select"
    /\ stopClosed
    /\ loops' = [loops EXCEPT ![l].pc = "exited"]
    /\ UNCHANGED <<storeVars, srcVars, bfVars, index, svcVars>>

\* the runtime delivers a tick into the ticker's one-slot channel
TickerFires(t) ==
    /\ Alive
    /\ t \in 1..Len(tickers)
    /\ ~tickers[t].stopped
    /\ ~tickers[t].pending
    /\ tickers' = [tickers EXCEPT ![t].pending = TRUE]
    /\ UNCHANGED <<storeVars, srcVars, bfVars, index, historical, pollingStarted,
                   stopClosed, pollingTicker, panicked, starts, loops, gauge>>

(***************************************************************************)
(* Service.indexHistorical: the resume point and the skip.                 *)
(***************************************************************************)
OneHour == 3600

LastTimestamp(rows) == MaxOf({ rows[i].timestamp : i \in 1..Len(rows) })

\* startDate: one second after the latest stored timestamp, or the
\* configured start date when the table is empty
ResumePoint(rows) ==
    IF Len(rows) > 0 THEN LastTimestamp(rows) + 1 ELSE HistoricalStartDate

\* time.Since(startDate) < 1*time.Hour
UpToDate(rows, t) == t - ResumePoint(rows) < OneHour

\* what a run has to read, and the event counts at which it can have
\* ended: after a flush, or after the final flush
Backlog(rows, t) ==
    IF UpToDate(rows, t) THEN <<>>
    ELSE GetDelegationsSince(source, ResumePoint(rows), Len(source))

PagesPerFlush == (FlushThreshold + HistPageSize - 1) \div HistPageSize

FlushPoints(n) ==
    { k \in 0..n : k = n \/ k % (HistPageSize * PagesPerFlush) = 0 }

(***************************************************************************)
(* Service.StartPolling, call c: the guarded flag under the mutex, the     *)
(* historical indexing, the ticker, the goroutine.                         *)
(***************************************************************************)
\* StartPolling without the pollingStarted guard
StartLockUnguarded(c) ==
    /\ Alive
    /\ starts[c] = "idle"
    /\ pollingStarted' = TRUE
    /\ starts' = [starts EXCEPT ![c] = IF historical THEN "backfill" ELSE "ticker"]
    /\ UNCHANGED <<storeVars, srcVars, bfVars, index, historical, stopClosed,
                   pollingTicker, tickers, panicked, loops, gauge>>

StartLock(c) ==
    /\ Alive
    /\ starts[c] = "idle"
    /\ IF pollingStarted
       THEN /\ starts' = [starts EXCEPT ![c] = "already_started"]
            /\ UNCHANGED pollingStarted
       ELSE /\ pollingStarted' = TRUE
            /\ starts' = [starts EXCEPT ![c] =
                  IF historical THEN "backfill" ELSE "ticker"]
    /\ UNCHANGED <<storeVars, srcVars, bfVars, index, historical, stopClosed,
                   pollingTicker, tickers, panicked, loops, gauge>>

\* indexHistorical() has returned, with or without an error: it has stored
\* what its flushes saved before it ended
StartBackfillReturns(c) ==
    /\ Alive
    /\ starts[c] = "backfill"
    /\ \E k \in FlushPoints(Len(Backlog(store, now))) :
          store' = UpsertAll(store,
                     convertToDomainDelegations(Take(Backlog(store, now), k)))
    /\ starts' = [starts EXCEPT ![c] = "ticker"]
    /\ UNCHANGED <<schema, metadata, ret, srcVars, bfVars, index, historical, pollingStarted,
                   stopClosed, pollingTicker, tickers, panicked, loops, gauge>>

StartTicker(c) ==
    /\ Alive
    /\ starts[c] = "ticker"
    /\ tickers' = Append(tickers, [stopped |-> FALSE, pending |-> FALSE])
    /\ pollingTicker' = Len(tickers) + 1
    /\ starts' = [starts EXCEPT ![c] = "go"]
    /\ loops' = [loops EXCEPT ![c].ticker = Len(tickers) + 1]
    /\ UNCHANGED <<storeVars, srcVars, bfVars, index, historical, pollingStarted,
                   stopClosed, panicked, gauge>>

StartGo(c) ==
    /\ Alive
    /\ starts[c] = "go"
    /\ loops' = [loops EXCEPT ![c].pc = "first"]
    /\ starts' = [starts EXCEPT ![c] = "nil"]
    /\ UNCHANGED <<storeVars, srcVars, bfVars, index, historical, pollingStarted,
                   stopClosed, pollingTicker, tickers, panicked, gauge>>

(***************************************************************************)
(* Service.StopPolling: the whole body runs under the mutex.  Closing the  *)
(* stop channel a second time panics.                                      *)
(***************************************************************************)
StopPolling ==
    /\ Alive
    /\ IF ~pollingStarted
       THEN UNCHANGED <<pollingStarted, stopClosed, tickers, panicked>>
       ELSE IF stopClosed
       THEN /\ panicked' = TRUE
            /\ UNCHANGED <<pollingStarted, stopClosed, tickers>>
       ELSE /\ stopClosed' = TRUE
            /\ tickers' = IF pollingTicker # 0
                          THEN [tickers EXCEPT ![pollingTicker].stopped = TRUE]
                          ELSE tickers
            /\ pollingStarted' = FALSE
            /\ UNCHANGED panicked
    /\ UNCHANGED <<storeVars, srcVars, bfVars, index, historical, pollingTicker, starts,
                   loops, gauge>>

(***************************************************************************)
(* Service.indexHistorical: the calls it makes.  hist is the consumer:     *)
(* [pc, runs, startDate, buffer, processed, result] and, for the record,   *)
(* the pages it received and the batches it handed to SaveBatch; prod is   *)
(* the producer: [pc, offset, page, ended], the pages it fetched and the   *)
(* requests it made.                                                       *)
(***************************************************************************)
NoHist == [pc |-> "idle", runs |-> 0, startDate |-> 0, buffer |-> <<>>,
           processed |-> 0, result |-> "none",
           received |-> <<>>, flushes |-> <<>>]

NoProd == [pc |-> "none", offset |-> 0, page |-> <<>>, ended |-> "none",
           fetched |-> <<>>, requests |-> <<>>]

NoChans == [pages |-> <<>>, pagesClosed |-> FALSE,
            errs |-> <<>>, errsClosed |-> FALSE]

NoBackfill ==
    /\ hist = NoHist
    /\ prod = NoProd
    /\ chans = NoChans
    /\ ctxDone = FALSE

\* indexHistorical up to the start of the pipeline: FindAll, the resume
\* point, the skip, GetHistoricalDelegations and g.Go
IndexHistoricalCall(findOk) ==
    /\ hist.pc = "idle"
    /\ hist.runs < MaxRuns
    /\ IF ~findOk
       THEN /\ hist' = [hist EXCEPT !.pc = "returned", !.runs = @ + 1,
                                    !.result = "error"]
            /\ UNCHANGED <<prod, chans, ctxDone>>
       ELSE IF UpToDate(store, now)
       THEN /\ hist' = [hist EXCEPT !.pc = "returned", !.runs = @ + 1,
                                    !.startDate = ResumePoint(store),
                                    !.result = "skipped"]
            /\ UNCHANGED <<prod, chans, ctxDone>>
       ELSE /\ hist' = [hist EXCEPT !.pc = "running", !.runs = @ + 1,
                                    !.startDate = ResumePoint(store)]
            /\ prod' = [NoProd EXCEPT !.pc = "loop"]
            /\ chans' = NoChans
            /\ ctxDone' = FALSE
    /\ UNCHANGED <<storeVars, srcVars, svcVars, loops, index>>

(***************************************************************************)
(* Client.GetHistoricalDelegations: the producer goroutine.                *)
(***************************************************************************)
\* select { case <-ctx.Done(): errorChan <- ctx.Err(); return; default: }
ProdLoop ==
    /\ prod.pc = "loop"
    /\ IF ctxDone
       THEN /\ chans' = [chans EXCEPT !.errs = Append(@, "ctx")]
            /\ prod' = [prod EXCEPT !.pc = "closeErr", !.ended = "cancelled"]
       ELSE /\ prod' = [prod EXCEPT !.pc = "fetch"]
            /\ UNCHANGED chans
    /\ UNCHANGED <<storeVars, srcVars, svcVars, loops, index, hist, ctxDone>>

\* a producer that asks for the first page every time
HistoricalParamsNoOffset(offset) ==
    [Limit |-> HistPageSize, Offset |-> 0, LevelGte |-> Unset,
     TimestampGte |-> Set(hist.startDate), Sort |-> <<"id.asc">>]

\* params := QueryParams{Limit, Offset, Timestamp.Gte, Sort}
HistoricalParams(offset) ==
    [Limit |-> HistPageSize, Offset |-> offset, LevelGte |-> Unset,
     TimestampGte |-> Set(hist.startDate), Sort |-> <<"id.asc">>]

HistoricalPage == GetDelegations(source, HistoricalParams(prod.offset))

\* c.GetDelegations(ctx, params), which fails when ctx is cancelled
ProdFetch(ok) ==
    /\ prod.pc = "fetch"
    /\ IF ~ok \/ ctxDone
       THEN /\ chans' = [chans EXCEPT !.errs = Append(@, "fetch")]
            /\ prod' = [prod EXCEPT !.pc = "closeErr",
                           !.ended = IF ctxDone THEN "cancelled"
                                     ELSE "fetch_error",
                           !.requests = Append(@, HistoricalParams(prod.offset))]
       ELSE IF Len(HistoricalPage) = 0
       THEN /\ prod' = [prod EXCEPT !.pc = "closeErr", !.ended = "exhausted",
                           !.requests = Append(@, HistoricalParams(prod.offset))]
            /\ UNCHANGED chans
       ELSE /\ prod' = [prod EXCEPT !.pc = "send", !.page = HistoricalPage,
                           !.fetched = Append(@, HistoricalPage),
                           !.requests = Append(@, HistoricalParams(prod.offset))]
            /\ UNCHANGED chans
    /\ UNCHANGED <<storeVars, srcVars, svcVars, loops, index, hist, ctxDone>>

\* the send on a channel without a capacity
ProdSendUnbounded ==
    /\ prod.pc = "send"
    /\ chans' = [chans EXCEPT !.pages = Append(@, prod.page)]
    /\ prod' = [prod EXCEPT !.pc = "loop", !.page = <<>>,
                            !.offset = @ + Len(prod.page)]
    /\ UNCHANGED <<storeVars, srcVars, svcVars, loops, index, hist, ctxDone>>

\* delegationsChan <- delegations: blocks while the channel is full
ProdSend ==
    /\ prod.pc = "send"
    /\ Len(chans.pages) < ChanCap
    /\ chans' = [chans EXCEPT !.pages = Append(@, prod.page)]
    /\ prod' = [prod EXCEPT !.pc = "loop", !.page = <<>>,
                            !.offset = @ + Len(prod.page)]
    /\ UNCHANGED <<storeVars, srcVars, svcVars, loops, index, hist, ctxDone>>

\* the deferred calls run last-in first-out: close(errorChan) ...
ProdCloseErrorChan ==
    /\ prod.pc = "closeErr"
    /\ chans' = [chans EXCEPT !.errsClosed = TRUE]
    /\ prod' = [prod EXCEPT !.pc = "closePages"]
    /\ UNCHANGED <<storeVars, srcVars, svcVars, loops, index, hist, ctxDone>>

\* a producer that returns without closing delegationsChan
ProdReturnsWithoutClose ==
    /\ prod.pc = "closePages"
    /\ prod' = [prod EXCEPT !.pc = "exited"]
    /\ UNCHANGED <<storeVars, srcVars, svcVars, loops, index, hist, chans,
                   ctxDone>>

\* ... then close(delegationsChan)
ProdClosePagesChan ==
    /\ prod.pc = "closePages"
    /\ chans' = [chans EXCEPT !.pagesClosed = TRUE]
    /\ prod' = [prod EXCEPT !.pc = "exited"]
    /\ UNCHANGED <<storeVars, srcVars, svcVars, loops, index, hist, ctxDone>>

(***************************************************************************)
(* The consumer goroutine of indexHistorical: one select per step.  When   *)
(* it returns, g.Wait() returns and the context is cancelled; with an     *)
(* error indexHistorical returns it, with nil it goes on to                *)
(* verifySyncCompleteness.                                                 *)
(***************************************************************************)
Returns(h, result) ==
    /\ hist' = IF result = "nil"
               THEN [h EXCEPT !.pc = "verify", !.buffer = <<>>]
               ELSE [h EXCEPT !.pc = "returned", !.buffer = <<>>,
                              !.result = result]
    /\ ctxDone' = TRUE

\* a batch handed to SaveBatch, by the threshold or as the final one
Flush(buf, final) == [rows |-> buf, final |-> final]

\* case delegations, ok := <-delegationsChan, ok = true
ConsPage(fault) ==
    /\ hist.pc = "running"
    /\ Len(chans.pages) > 0
    /\ chans' = [chans EXCEPT !.pages = Tail(@)]
    /\ LET page == Head(chans.pages)
           buf == hist.buffer \o convertToDomainDelegations(page)
           r == SaveBatch(schema, store, buf, fault)
           got == [hist EXCEPT !.received = Append(@, page),
                               !.processed = @ + Len(page)]
       IN IF Len(buf) >= FlushThreshold
          THEN /\ store' = r.rows
               /\ ret' = SaveBatchRet(store, buf, r)
               /\ IF r.err
                  THEN Returns([got EXCEPT !.flushes = Append(@, Flush(buf, FALSE))],
                               "error")
                  ELSE /\ hist' = [got EXCEPT !.buffer = <<>>,
                                     !.flushes = Append(@, Flush(buf, FALSE))]
                       /\ UNCHANGED ctxDone
          ELSE /\ hist' = [got EXCEPT !.buffer = buf]
               /\ UNCHANGED <<store, ret, ctxDone>>
    /\ UNCHANGED <<schema, metadata, srcVars, svcVars, loops, index, prod>>

\* the closed-channel case without its len(batchBuffer) > 0 check
ConsClosedAlwaysFlushes(fault) ==
    /\ hist.pc = "running"
    /\ Len(chans.pages) = 0
    /\ chans.pagesClosed
    /\ LET r == SaveBatch(schema, store, hist.buffer, fault)
       IN /\ store' = r.rows
          /\ ret' = SaveBatchRet(store, hist.buffer, r)
          /\ Returns([hist EXCEPT !.flushes =
                                    Append(@, Flush(hist.buffer, TRUE))],
                     IF r.err THEN "error" ELSE "nil")
    /\ UNCHANGED <<schema, metadata, srcVars, svcVars, loops, index, prod, chans>>

\* case delegations, ok := <-delegationsChan, ok = false
ConsClosed(fault) ==
    /\ hist.pc = "running"
    /\ Len(chans.pages) = 0
    /\ chans.pagesClosed
    /\ LET r == SaveBatch(schema, store, hist.buffer, fault)
       IN IF Len(hist.buffer) > 0
          THEN /\ store' = r.rows
               /\ ret' = SaveBatchRet(store, hist.buffer, r)
               /\ Returns([hist EXCEPT !.flushes =
                                         Append(@, Flush(hist.buffer, TRUE))],
                          IF r.err THEN "error" ELSE "nil")
          ELSE /\ UNCHANGED <<store, ret>>
               /\ Returns(hist, "nil")
    /\ UNCHANGED <<schema, metadata, srcVars, svcVars, loops, index, prod, chans>>

\* case err := <-errorChan: a value, or nil from the closed channel
ConsError ==
    /\ hist.pc = "running"
    /\ IF Len(chans.errs) > 0
       THEN /\ chans' = [chans EXCEPT !.errs = Tail(@)]
            /\ Returns(hist, "error")
       ELSE /\ chans.errsClosed
            /\ UNCHANGED <<hist, chans, ctxDone>>
    /\ UNCHANGED <<storeVars, srcVars, svcVars, loops, index, prod>>

\* case <-gctx.Done()
ConsCtxDone ==
    /\ hist.pc = "running"
    /\ ctxDone
    /\ Returns(hist, "error")
    /\ UNCHANGED <<storeVars, srcVars, svcVars, loops, index, prod, chans>>

(***************************************************************************)
(* Service.verifySyncCompleteness(startDate) and the end of                *)
(* indexHistorical.  The count request carries the start date as a day.    *)
(***************************************************************************)
OneDay == 86400

\* startDate.Format("2006-01-02") as the server reads it back
DateOf(timestamp) == timestamp - (timestamp % OneDay)

\* GET /v1/operations/delegations/count?timestamp.ge=<day>&status=applied
TzktCount(startDate) ==
    Len(SelectSeq(source, LAMBDA e : /\ e.status = "applied"
                                     /\ e.timestamp >= DateOf(startDate)))

\* the rows of FindAll(nil) with Timestamp at or after startDate
DbCount(rows, startDate) ==
    Len(SelectSeq(FindAll(rows), LAMBDA d : d.Timestamp >= startDate))

\* the count request fails, its body is not a number, FindAll fails
VerifyFaults == {"none", "request", "parse", "db"}

\* TRUE when verifySyncCompleteness returns an error
verifySyncCompleteness(rows, startDate, fault) ==
    IF fault # "none" THEN TRUE
    ELSE TzktCount(startDate) - DbCount(rows, startDate) > 0

\* an indexHistorical that returns the verification's error
IndexHistoricalResultStrict(verifyErr) ==
    IF verifyErr THEN "error" ELSE "nil"

\* if err := s.verifySyncCompleteness(startDate); err != nil { Warnw }
\* ... return nil
IndexHistoricalResult(verifyErr) == "nil"

VerifySync(fault) ==
    /\ hist.pc = "verify"
    /\ hist' = [hist EXCEPT
                  !.pc = "returned",
                  !.result = IndexHistoricalResult(
                     verifySyncCompleteness(store, hist.startDate, fault))]
    /\ UNCHANGED <<storeVars, srcVars, svcVars, loops, index, prod, chans,
                   ctxDone>>

\* the two-hour deadline of the context passes
Timeout ==
    /\ hist.pc = "running"
    /\ ~ctxDone
    /\ ctxDone' = TRUE
    /\ UNCHANGED <<storeVars, srcVars, svcVars, loops, index, hist, prod, chans>>

\* the process ends, at any point of a run or after it, and main() starts
\* again on the same database; initializeMetrics sets the new process's
\* gauge when its GetLastIndexedLevel call succeeds
Restart ==
    /\ hist.pc # "idle"
    /\ hist' = [NoHist EXCEPT !.runs = hist.runs]
    /\ prod' = NoProd
    /\ chans' = NoChans
    /\ ctxDone' = FALSE
    /\ \E ok \in BOOLEAN :
          gauge' = IF ok THEN UpdateLastIndexedLevel(GetLastIndexedLevel(store))
                   ELSE 0
    /\ UNCHANGED <<storeVars, srcVars, historical, pollingStarted, stopClosed,
                   pollingTicker, tickers, panicked, starts, loops, index>>

(***************************************************************************)
(* Service.IndexDelegations(fromLevel): fetch a page from currentLevel,    *)
(* save it, go on from the level after the page's last event, stop on an   *)
(* empty or short page.  index is [pc, calls, currentLevel, page, result,  *)
(* timedOut] and, for the record, the requests it made.                    *)
(***************************************************************************)
NoIndex == [pc |-> "idle", calls |-> 0, currentLevel |-> 0, page |-> <<>>,
            result |-> "none", timedOut |-> FALSE, requests |-> <<>>]

\* a GetDelegationsFromLevel call that returned a page: the level asked
\* for, the length of the page and the level of its last event
Request(level, page) ==
    [level |-> level, len |-> Len(page),
     last |-> IF Len(page) = 0 THEN 0 ELSE page[Len(page)].level]

IndexCall(fromLevel) ==
    /\ index.pc \in {"idle", "returned"}
    /\ index.calls < MaxRuns
    /\ index' = [NoIndex EXCEPT !.pc = "loop", !.calls = index.calls + 1,
                                !.currentLevel = fromLevel]
    /\ UNCHANGED <<storeVars, srcVars, svcVars, loops, bfVars>>

\* select { case <-ctx.Done(): return ctx.Err(); default: }
IndexLoop ==
    /\ index.pc = "loop"
    /\ index' = IF index.timedOut
                THEN [index EXCEPT !.pc = "returned", !.result = "error"]
                ELSE [index EXCEPT !.pc = "fetch"]
    /\ UNCHANGED <<storeVars, srcVars, svcVars, loops, bfVars>>

IndexPage ==
    GetDelegationsFromLevel(source, index.currentLevel, IndexBatchSize)

\* s.tzktClient.GetDelegationsFromLevel(ctx, currentLevel, batchSize)
IndexFetch(ok) ==
    /\ index.pc = "fetch"
    /\ index' =
         IF ~ok \/ index.timedOut
         THEN [index EXCEPT !.pc = "returned", !.result = "error"]
         ELSE IF Len(IndexPage) = 0
         THEN [index EXCEPT !.pc = "returned", !.result = "nil",
                 !.requests = Append(@, Request(index.currentLevel, IndexPage))]
         ELSE [index EXCEPT !.pc = "save", !.page = IndexPage,
                 !.requests = Append(@, Request(index.currentLevel, IndexPage))]
    /\ UNCHANGED <<storeVars, srcVars, svcVars, loops, bfVars>>

\* s.repo.SaveBatch(domainDelegations), then the next level or the end
IndexSave(fault) ==
    /\ index.pc = "save"
    /\ LET ds == convertToDomainDelegations(index.page)
           r == SaveBatch(schema, store, ds, fault)
           last == index.page[Len(index.page)]
       IN /\ store' = r.rows
          /\ ret' = SaveBatchRet(store, ds, r)
          /\ index' =
               IF r.err
               THEN [index EXCEPT !.pc = "returned", !.page = <<>>,
                                  !.result = "error"]
               ELSE IF Len(index.page) < IndexBatchSize
               THEN [index EXCEPT !.pc = "returned", !.page = <<>>,
                                  !.currentLevel = last.level + 1,
                                  !.result = "nil"]
               ELSE [index EXCEPT !.pc = "loop", !.page = <<>>,
                                  !.currentLevel = last.level + 1]
    /\ UNCHANGED <<schema, metadata, srcVars, svcVars, loops, bfVars>>

\* the ten-minute deadline of the call's context passes
IndexTimeout ==
    /\ index.pc \in {"loop", "fetch", "save"}
    /\ ~index.timedOut
    /\ index' = [index EXCEPT !.timedOut = TRUE]
    /\ UNCHANGED <<storeVars, srcVars, svcVars, loops, bfVars>>

(***************************************************************************)
(* The source gains a block: one or two operations at a level above every  *)
(* level it holds (a block becomes visible as a whole).                    *)
(***************************************************************************)
TopLevel(src) == IF Len(src) = 0 THEN 0 ELSE src[Len(src)].level

Block(first, level, n, status) ==
    [ i \in 1..n |->
        SourceEvent(first + i - 1, level,
                    IF i = 1 THEN status ELSE "applied") ]

SourceAppend ==
    /\ Alive
    /\ \E level \in (TopLevel(source) + 1)..MaxLevel,
          n \in 1..2,
          status \in {"applied", "failed"} :
          /\ Len(source) + n <= MaxSource
          /\ source' = source \o Block(Len(source) + 1, level, n, status)
          /\ now' = BlockTimeOf(level)
    /\ UNCHANGED <<storeVars, startLevel, http, svcVars, loops, bfVars, index, statusFilter>>

(***************************************************************************)
(* Store driver: any caller of the repository.                             *)
(***************************************************************************)
IdleService ==
    /\ pollingStarted = FALSE
    /\ stopClosed = FALSE
    /\ pollingTicker = 0
    /\ tickers = <<>>
    /\ panicked = FALSE
    /\ gauge = GetLastIndexedLevel(store)
    /\ starts = [c \in 1..MaxCalls |-> "idle"]
    /\ loops = [l \in Loops |-> NoLoop]
    /\ NoBackfill
    /\ index = NoIndex
    /\ http = NoCall
    /\ statusFilter = TRUE

InitStore ==
    /\ schema \in Schemas
    /\ metadata = NoMetadata
    /\ store = <<>>
    /\ ret = NoRet
    /\ source = <<>>
    /\ now = BlockTimeOf(0)
    /\ startLevel = 0
    /\ historical = FALSE
    /\ IdleService

CallSaveBatch ==
    \E ds \in Batches, fault \in Faults :
        LET r == SaveBatch(schema, store, ds, fault) IN
        /\ store' = r.rows
        /\ ret' = SaveBatchRet(store, ds, r)
        /\ UNCHANGED <<schema, metadata, srcVars, svcVars, loops, bfVars, index>>

CallSave ==
    \E d \in Delegations, fault \in Faults :
        LET r == Save(schema, store, d, fault) IN
        /\ store' = r.rows
        /\ ret' = [op |-> "Save", err |-> r.err, conflicts |-> 0,
                   Delegator |-> d.Delegator, Amount |-> d.Amount,
                   kind |-> IF fault # "none" THEN "fault"
                            ELSE IF d.OperationHash \in Identities(store)
                                 THEN "update" ELSE "insert"]
        /\ UNCHANGED <<schema, metadata, srcVars, svcVars, loops, bfVars, index>>

NextStore == CallSaveBatch \/ CallSave

SpecStore == InitStore /\ [][NextStore]_vars

(***************************************************************************)
(* Source contents a run may start from: applied operations whose levels   *)
(* do not decrease with the id.                                            *)
(***************************************************************************)
LevelSeqs(n) ==
    { f \in [1..n -> 1..MaxLevel] : \A i \in 1..(n - 1) : f[i] <= f[i + 1] }

SourceOf(f) == [ i \in 1..Len(f) |-> SourceEvent(i, f[i], "applied") ]

Sources(maxLen) == { SourceOf(f) : f \in UNION { LevelSeqs(n) : n \in 0..maxLen } }

\* the store after the first k operations of the source were ingested
Ingested(src, k) == UpsertAll(<<>>, convertToDomainDelegations(Take(src, k)))

(***************************************************************************)
(* Polling in steady state: StartPolling has returned, historical indexing *)
(* is off, one poll loop runs and nobody calls StopPolling.                *)
(***************************************************************************)
InitPoll ==
    /\ schema = MigratedSchema
    /\ metadata = NoMetadata
    /\ ret = NoRet
    /\ source \in Sources(MaxSource)
    /\ \E k \in 0..Len(source) : store = Ingested(source, k)
    /\ now \in { BlockTimeOf(TopLevel(source)) }
    /\ startLevel = GetLastIndexedLevel(store)
    /\ historical = FALSE
    /\ pollingStarted = TRUE
    /\ stopClosed = FALSE
    /\ pollingTicker = 1
    /\ tickers = << [stopped |-> FALSE, pending |-> FALSE] >>
    /\ panicked = FALSE
    /\ gauge = GetLastIndexedLevel(store)
    /\ starts = [c \in 1..MaxCalls |-> IF c = 1 THEN "nil" ELSE "idle"]
    /\ loops = [l \in Loops |->
                  IF l = 1 THEN [NoLoop EXCEPT !.pc = "first", !.ticker = 1]
                  ELSE NoLoop]
    /\ NoBackfill
    /\ index = NoIndex
    /\ http = NoCall
    /\ statusFilter = TRUE

NextPoll ==
    \/ SourceAppend
    \/ TickerFires(1)
    \/ LoopFirst(1)
    \/ LoopTick(1)
    \/ \E ok \in BOOLEAN : PollRead(1, ok)
    \/ \E ok \in BOOLEAN : PollFetch(1, ok)
    \/ \E fault \in Faults : PollSave(1, fault)

SpecPoll == InitPoll /\ [][NextPoll]_vars

\* the ticker keeps firing, the loop keeps running, and every call to the
\* store or the source succeeds again and again
FairPoll ==
    /\ WF_vars(TickerFires(1))
    /\ WF_vars(LoopFirst(1))
    /\ WF_vars(LoopTick(1))
    /\ SF_vars(PollRead(1, TRUE))
    /\ SF_vars(PollFetch(1, TRUE))
    /\ SF_vars(PollSave(1, "none"))

SpecPollFair == InitPoll /\ [][NextPoll]_vars /\ FairPoll

(***************************************************************************)
(* Lifecycle: any interleaving of StartPolling and StopPolling calls with  *)
(* the poll loops and tickers they create.                                 *)
(***************************************************************************)
InitLife ==
    /\ schema = MigratedSchema
    /\ metadata = NoMetadata
    /\ ret = NoRet
    /\ source \in Sources(1)
    /\ store = <<>>
    /\ now = BlockTimeOf(TopLevel(source)) + 2 * OneHour
    /\ startLevel = 0
    /\ historical \in BOOLEAN
    /\ IdleService

NextLife ==
    \/ \E c \in 1..MaxCalls : StartLock(c)
    \/ \E c \in 1..MaxCalls : StartBackfillReturns(c)
    \/ \E c \in 1..MaxCalls : StartTicker(c)
    \/ \E c \in 1..MaxCalls : StartGo(c)
    \/ StopPolling
    \/ \E t \in 1..MaxCalls : TickerFires(t)
    \/ \E l \in Loops : LoopFirst(l)
    \/ \E l \in Loops : LoopTick(l)
    \/ \E l \in Loops : LoopStopped(l)
    \/ \E l \in Loops, ok \in BOOLEAN : PollRead(l, ok)
    \/ \E l \in Loops, ok \in BOOLEAN : PollFetch(l, ok)
    \/ \E l \in Loops, fault \in Faults : PollSave(l, fault)

SpecLife == InitLife /\ [][NextLife]_vars

(***************************************************************************)
(* Backfill: indexHistorical runs on a database that starts empty, is      *)
(* interrupted or completes, and runs again after a restart.  The source   *)
(* does not change meanwhile; the clock stands an hour or more after the   *)
(* last block.                                                             *)
(***************************************************************************)
InitBackfill ==
    /\ schema = MigratedSchema
    /\ metadata = NoMetadata
    /\ ret = NoRet
    /\ source \in Sources(MaxSource)
    /\ store = <<>>
    /\ now \in { BlockTimeOf(TopLevel(source)) + h * OneHour : h \in {0, 2} }
    /\ startLevel = 0
    /\ historical = TRUE
    /\ IdleService

NextBackfill ==
    \/ \E findOk \in BOOLEAN : IndexHistoricalCall(findOk)
    \/ ProdLoop
    \/ \E ok \in BOOLEAN : ProdFetch(ok)
    \/ ProdSend
    \/ ProdCloseErrorChan
    \/ ProdClosePagesChan
    \/ \E fault \in Faults : ConsPage(fault)
    \/ \E fault \in Faults : ConsClosed(fault)
    \/ ConsError
    \/ ConsCtxDone
    \/ \E fault \in VerifyFaults : VerifySync(fault)
    \/ Timeout
    \/ Restart

SpecBackfill == InitBackfill /\ [][NextBackfill]_vars

(***************************************************************************)
(* IndexDelegations called on a store that holds a prefix of the source,   *)
(* from any level, while the source grows.                                 *)
(***************************************************************************)
InitIndex ==
    /\ schema = MigratedSchema
    /\ metadata = NoMetadata
    /\ ret = NoRet
    /\ source \in Sources(MaxSource)
    /\ \E k \in 0..Len(source) : store = Ingested(source, k)
    /\ now = BlockTimeOf(TopLevel(source))
    /\ startLevel = GetLastIndexedLevel(store)
    /\ historical = FALSE
    /\ IdleService

NextIndex ==
    \/ SourceAppend
    \/ \E fromLevel \in 0..MaxLevel : IndexCall(fromLevel)
    \/ IndexLoop
    \/ \E ok \in BOOLEAN : IndexFetch(ok)
    \/ \E fault \in Faults : IndexSave(fault)
    \/ IndexTimeout

SpecIndex == InitIndex /\ [][NextIndex]_vars

(***************************************************************************)
(* Two poll loops on one Service: StartPolling, StopPolling, StartPolling  *)
(* have returned before the first loop has run (the stop channel stays     *)
(* closed, the first ticker is stopped), and the source keeps growing.     *)
(***************************************************************************)
InitRestarted ==
    /\ schema = MigratedSchema
    /\ metadata = NoMetadata
    /\ ret = NoRet
    /\ source = <<>>
    /\ store = <<>>
    /\ now = BlockTimeOf(0)
    /\ startLevel = 0
    /\ historical = FALSE
    /\ pollingStarted = TRUE
    /\ stopClosed = TRUE
    /\ pollingTicker = 2
    /\ tickers = << [stopped |-> TRUE, pending |-> FALSE],
                    [stopped |-> FALSE, pending |-> FALSE] >>
    /\ panicked = FALSE
    /\ gauge = GetLastIndexedLevel(store)
    /\ starts = [c \in 1..MaxCalls |-> IF c <= 2 THEN "nil" ELSE "idle"]
    /\ loops = [l \in Loops |->
                  IF l <= 2 THEN [NoLoop EXCEPT !.pc = "first", !.ticker = l]
                  ELSE NoLoop]
    /\ NoBackfill
    /\ index = NoIndex
    /\ http = NoCall
    /\ statusFilter = TRUE

NextRestarted ==
    \/ SourceAppend
    \/ TickerFires(2)
    \/ \E l \in Loops : LoopFirst(l)
    \/ \E l \in Loops : LoopTick(l)
    \/ \E l \in Loops : LoopStopped(l)
    \/ \E l \in Loops, ok \in BOOLEAN : PollRead(l, ok)
    \/ \E l \in Loops, ok \in BOOLEAN : PollFetch(l, ok)
    \/ \E l \in Loops, fault \in Faults : PollSave(l, fault)

SpecRestarted == InitRestarted /\ [][NextRestarted]_vars

(***************************************************************************)
(* Ingestion paths on a source that holds operations of every status: a    *)
(* poll loop on an empty store or behind a cursor, indexHistorical, or     *)
(* IndexDelegations, one of them per run.                                  *)
(***************************************************************************)
Statuses == {"applied", "failed"}

MixedSourceOf(f, st) == [ i \in 1..Len(f) |-> SourceEvent(i, f[i], st[i]) ]

MixedSources(maxLen) ==
    UNION { { MixedSourceOf(f, st) : f \in LevelSeqs(n),
                                     st \in [1..n -> Statuses] } :
            n \in 0..maxLen }

InitIngest ==
    /\ schema = MigratedSchema
    /\ metadata = NoMetadata
    /\ ret = NoRet
    /\ source \in MixedSources(MaxMixed)
    /\ \E k \in 0..Len(source) : store = Ingested(source, k)
    /\ now = BlockTimeOf(TopLevel(source)) + 2 * OneHour
    /\ startLevel = GetLastIndexedLevel(store)
    /\ panicked = FALSE
    /\ gauge = GetLastIndexedLevel(store)
    /\ stopClosed = FALSE
    /\ NoBackfill
    /\ index = NoIndex
    /\ http = NoCall
    /\ statusFilter = TRUE
    /\ \/ /\ historical = FALSE
          /\ pollingStarted = TRUE
          /\ pollingTicker = 1
          /\ tickers = << [stopped |-> FALSE, pending |-> FALSE] >>
          /\ starts = [c \in 1..MaxCalls |-> IF c = 1 THEN "nil" ELSE "idle"]
          /\ loops = [l \in Loops |->
                        IF l = 1
                        THEN [NoLoop EXCEPT !.pc = "first", !.ticker = 1]
                        ELSE NoLoop]
       \/ /\ historical \in BOOLEAN
          /\ pollingStarted = FALSE
          /\ pollingTicker = 0
          /\ tickers = <<>>
          /\ starts = [c \in 1..MaxCalls |-> "idle"]
          /\ loops = [l \in Loops |-> NoLoop]

NextIngest ==
    \/ pollingStarted /\ NextPoll
    \/ ~pollingStarted /\ historical /\ NextBackfill
    \/ ~pollingStarted /\ ~historical /\ NextIndex

SpecIngest == InitIngest /\ [][NextIngest]_vars

(***************************************************************************)
(* StartPolling with historical indexing on, from the lock to its return,  *)
(* with indexHistorical run step by step inside it.                        *)
(***************************************************************************)
\* a StartPolling that returns the error of indexHistorical
StartBackfillDoneOrFail(c) ==
    /\ Alive
    /\ starts[c] = "backfill"
    /\ hist.pc = "returned"
    /\ starts' = [starts EXCEPT ![c] =
                    IF hist.result = "error" THEN "error" ELSE "ticker"]
    /\ UNCHANGED <<storeVars, srcVars, bfVars, index, historical, pollingStarted,
                   stopClosed, pollingTicker, tickers, panicked, loops, gauge>>

\* if err := s.indexHistorical(); err != nil { log } else { log }
StartBackfillDone(c) ==
    /\ Alive
    /\ starts[c] = "backfill"
    /\ hist.pc = "returned"
    /\ starts' = [starts EXCEPT ![c] = "ticker"]
    /\ UNCHANGED <<storeVars, srcVars, bfVars, index, historical, pollingStarted,
                   stopClosed, pollingTicker, tickers, panicked, loops, gauge>>

InitStart ==
    /\ schema = MigratedSchema
    /\ metadata = NoMetadata
    /\ ret = NoRet
    /\ source \in Sources(MaxStart)
    /\ store = <<>>
    /\ now \in { BlockTimeOf(TopLevel(source)) + h * OneHour : h \in {0, 2} }
    /\ startLevel = 0
    /\ historical = TRUE
    /\ IdleService

NextStart ==
    \/ \E c \in 1..MaxCalls : StartLock(c)
    \/ \E c \in 1..MaxCalls, findOk \in BOOLEAN :
          starts[c] = "backfill" /\ IndexHistoricalCall(findOk)
    \/ ProdLoop
    \/ \E ok \in BOOLEAN : ProdFetch(ok)
    \/ ProdSend
    \/ ProdCloseErrorChan
    \/ ProdClosePagesChan
    \/ \E fault \in Faults : ConsPage(fault)
    \/ \E fault \in Faults : ConsClosed(fault)
    \/ ConsError
    \/ ConsCtxDone
    \/ \E fault \in VerifyFaults : VerifySync(fault)
    \/ Timeout
    \/ \E c \in 1..MaxCalls : StartBackfillDone(c)
    \/ \E c \in 1..MaxCalls : StartTicker(c)
    \/ \E c \in 1..MaxCalls : StartGo(c)

\* the goroutine that called StartPolling keeps running
FairStart ==
    \A c \in 1..MaxCalls :
        /\ WF_vars(\E fault \in VerifyFaults : VerifySync(fault))
        /\ WF_vars(StartBackfillDone(c))
        /\ WF_vars(StartTicker(c))
        /\ WF_vars(StartGo(c))

SpecStart == InitStart /\ [][NextStart]_vars /\ FairStart

(***************************************************************************)
(* One Client.GetDelegations call against a server that answers each       *)
(* attempt as its script says.                                             *)
(***************************************************************************)
InitClient ==
    /\ schema = MigratedSchema
    /\ metadata = NoMetadata
    /\ store = <<>>
    /\ ret = NoRet
    /\ source = <<>>
    /\ now = BlockTimeOf(0)
    /\ startLevel = 0
    /\ historical = FALSE
    /\ pollingStarted = FALSE
    /\ stopClosed = FALSE
    /\ pollingTicker = 0
    /\ tickers = <<>>
    /\ panicked = FALSE
    /\ gauge = GetLastIndexedLevel(store)
    /\ starts = [c \in 1..MaxCalls |-> "idle"]
    /\ loops = [l \in Loops |-> NoLoop]
    /\ NoBackfill
    /\ index = NoIndex
    /\ \E sc \in Scripts, t \in 0..Burst :
          http = [NoCall EXCEPT !.script = sc, !.tokens = t]
    /\ statusFilter = TRUE

NextClient ==
    \/ ClientCall
    \/ \E granted \in BOOLEAN : LimiterWait(granted)
    \/ TokenRefill
    \/ HttpAttempt
    \/ RetryWait
    \/ ClientReturn

SpecClient == InitClient /\ [][NextClient]_vars

\* the goroutine making the call keeps running and every wait ends
SpecClientFair == InitClient /\ [][NextClient]_vars /\ WF_vars(NextClient)

(***************************************************************************)
(* Store claims, under SpecStore.                                          *)
(***************************************************************************)
OneRowPerIdentity ==
    \A h \in Identities(store) : Cardinality(RowsOf(store, h)) = 1

\* C4: the store holds at most one row per identity (operation hash) in
\* every reachable state, and the set of stored identities never shrinks.
C4_OneRowPerIdentityNeverShrinks ==
    /\ []OneRowPerIdentity
    /\ [][Identities(store) \subseteq Identities(store')]_vars

\* C4: a SaveBatch has succeeded on identities that were already stored
C4_Witness ==
    /\ ret.op = "SaveBatch" /\ ~ret.err /\ ret.conflicts > 0
    /\ Cardinality(Identities(store)) = 2

Stored(rows, d) ==
    \E i \in 1..Len(rows) : rows[i] = Row(d)

CoLocated(d, e) ==
    /\ d.OperationHash # e.OperationHash
    /\ d.Delegator = e.Delegator
    /\ d.Level = e.Level

\* C5: two events with different identity and the same delegator and level
\* are both stored by a SaveBatch that the database does not fail, and the
\* call returns no error: in one call, or with one of them stored before.
C5_CoLocatedBothStored ==
    /\ \A d, e \in Delegations :
          CoLocated(d, e) =>
            LET r == SaveBatch(schema, store, <<d, e>>, "none") IN
            ~r.err /\ Stored(r.rows, d) /\ Stored(r.rows, e)
    /\ \A d, e \in Delegations :
          (CoLocated(d, e) /\ Stored(store, d)) =>
            LET r == SaveBatch(schema, store, <<e>>, "none") IN
            ~r.err /\ Stored(r.rows, d) /\ Stored(r.rows, e)


(***************************************************************************)
(* Polling claims, under SpecPollFair.                                     *)
(***************************************************************************)
\* source event i is applied and lies above the level the store held when
\* polling began
Eligible(i) ==
    /\ i <= Len(source)
    /\ source[i].status = "applied"
    /\ source[i].level > startLevel

StoredEvent(i) ==
    /\ i <= Len(source)
    /\ source[i].hash \in Identities(store)

\* C1: with ticks that keep firing and store and source calls that keep
\* succeeding, every applied source event above the store's level at the
\* start of polling is eventually in the store.
C1_NoEventLost ==
    \A i \in 1..MaxSource : [](Eligible(i) => <>StoredEvent(i))

\* C1: an eligible event is missing from the store and the cursor has moved
\* to its level, so that no later fetch (level >= cursor + 1) returns it
C1_EventBehindCursor ==
    \E i \in 1..MaxSource :
       /\ Eligible(i)
       /\ ~StoredEvent(i)
       /\ source[i].level <= GetLastIndexedLevel(store)

(***************************************************************************)
(* Backfill claims, under SpecBackfill.                                    *)
(***************************************************************************)
\* C2: when the producer ended with a fetch error, indexHistorical returns
\* an error, whichever ready case the consumer's select takes.
C2_FetchErrorSurfaces ==
    (hist.pc = "returned" /\ prod.ended = "fetch_error")
    => hist.result = "error"

\* C6: when a run of indexHistorical, the first or one after a restart, has
\* read the source to its end and returned nil, every applied source event
\* at or after the configured start date is in the store.
C6_ResumedWithoutLoss ==
    (hist.pc = "returned" /\ hist.result = "nil" /\ prod.ended = "exhausted")
    => \A i \in 1..Len(source) :
          (source[i].status = "applied"
             /\ source[i].timestamp >= HistoricalStartDate)
          => StoredEvent(i)

\* C6: a run resumes from a store whose latest timestamp is shared by an
\* event that is not stored
C6_ResumeInsideTimestamp ==
    /\ hist.pc = "running"
    /\ hist.runs = 2
    /\ \E i \in 1..Len(source) :
          /\ ~StoredEvent(i)
          /\ source[i].timestamp + 1 = hist.startDate

(***************************************************************************)
(* Lifecycle claims, under SpecLife.                                       *)
(***************************************************************************)
InPollOnce == { l \in Loops : loops[l].pc \in {"read", "fetch", "save"} }

\* a StopPolling call has closed the stop channel and no StartPolling call
\* has taken the flag since
Stopped == stopClosed /\ ~pollingStarted

\* C3: no StartPolling or StopPolling call panics, whatever the order and
\* interleaving of the calls (the stop channel is never closed twice).
C3_NoCallPanics == ~panicked

\* C7: at most one execution of pollOnce is in progress on the Service, for
\* every sequence of StartPolling and StopPolling calls.
C7_TicksNeverOverlap == Cardinality(InPollOnce) <= 1

\* C8: once StopPolling has returned, a poll loop waiting between two ticks
\* starts no further pollOnce, also when a tick is pending in the ticker's
\* channel at that moment.
C8_NoTickAfterStop ==
    [][Stopped =>
         \A l \in Loops :
            ~(loops[l].pc = "select" /\ loops'[l].pc = "read")]_vars

\* C8: StopPolling returned while StartPolling was inside the backfill, and
\* the loop that StartPolling then started is inside pollOnce, with a live
\* ticker
C8_StopDuringBackfillReached ==
    /\ historical
    /\ Stopped
    /\ \E c \in 1..MaxCalls : starts[c] = "nil" /\ loops[c].pc = "read"
    /\ Len(tickers) = 1
    /\ ~tickers[1].stopped

Started(c) == starts[c] \in {"backfill", "ticker", "go", "nil"}

LoopsCreated == { l \in Loops : loops[l].pc # "none" }

\* C9: a StartPolling call that finds polling started returns "polling
\* already started" and changes nothing else; of the StartPolling calls
\* racing on an idle Service (no StopPolling in between) exactly one
\* succeeds, and one ticker and one poll loop are created.
C9_StartIsGuarded ==
    /\ [][\A c \in 1..MaxCalls :
            (pollingStarted /\ starts[c] = "idle" /\ starts'[c] # "idle")
            => /\ starts' = [starts EXCEPT ![c] = "already_started"]
               /\ UNCHANGED <<storeVars, srcVars, bfVars, index, historical, pollingStarted,
                              stopClosed, pollingTicker, tickers, panicked,
                              loops, gauge>>]_vars
    /\ [](~stopClosed =>
            /\ Cardinality({ c \in 1..MaxCalls : Started(c) }) <= 1
            /\ Len(tickers) <= 1
            /\ Cardinality(LoopsCreated) <= 1
            /\ (\A c \in 1..MaxCalls : starts[c] \in {"nil", "already_started"})
               => /\ Cardinality({ c \in 1..MaxCalls : starts[c] = "nil" }) = 1
                  /\ Len(tickers) = 1
                  /\ Cardinality(LoopsCreated) = 1)

\* C9: two calls raced without a stop; one returned nil, the other the error
C9_Witness ==
    /\ ~stopClosed
    /\ \E c \in 1..MaxCalls : starts[c] = "already_started"
    /\ \E c \in 1..MaxCalls : starts[c] = "nil"
    /\ \A c \in 1..MaxCalls : starts[c] \in {"nil", "already_started"}
    /\ Len(tickers) = 1
    /\ InPollOnce # {}

(***************************************************************************)
(* C10, under SpecRestarted: two loops whose ticks overlap.                *)
(***************************************************************************)
\* C10: across poll ticks, successful or failed, overlapping or not, the
\* value GetLastIndexedLevel() returns never decreases.
C10_CursorNeverDecreases ==
    [][GetLastIndexedLevel(store) <= GetLastIndexedLevel(store')]_vars

\* C10: a loop is about to save a page fetched before the cursor moved
\* past it, after ticks that succeeded and ticks that failed
C10_Witness ==
    /\ \E l \in Loops :
          /\ loops[l].pc = "save"
          /\ loops[l].lastLevel < GetLastIndexedLevel(store)
    /\ \E l \in Loops : loops[l].outcome = "saved"
    /\ \E l \in Loops :
          loops[l].outcome \in {"db_error", "fetch_error", "save_error"}

(***************************************************************************)
(* Re-ingestion claims, under SpecIndex.                                   *)
(***************************************************************************)
PageIdentities(page) ==
    { convertToDomainDelegations(page)[i].OperationHash :
        i \in 1..Len(convertToDomainDelegations(page)) }

\* C11: a SaveBatch of a page whose identities are all stored already
\* leaves the number of rows FindAll(nil) returns unchanged and does not
\* lower GetLastIndexedLevel().
C11_ReIngestionIdempotent ==
    [][(index.pc = "save" /\ index'.pc # "save"
          /\ PageIdentities(index.page) \subseteq Identities(store))
       => /\ Len(FindAll(store')) = Len(FindAll(store))
          /\ GetLastIndexedLevel(store') >= GetLastIndexedLevel(store)]_vars

\* C11: a full page has been saved and every statement hit a stored row
C11_Witness ==
    /\ ret.op = "SaveBatch"
    /\ ~ret.err
    /\ ret.conflicts = IndexBatchSize
    /\ index.calls > 0
    /\ index.pc \in {"loop", "returned"}

(***************************************************************************)
(* Dedup claims, under SpecStore.                                          *)
(***************************************************************************)
SameIdentityNewAmount(d, e) ==
    /\ d.OperationHash = e.OperationHash
    /\ d.Amount # e.Amount

LaterEventOnly(rows, e) ==
    /\ Cardinality(RowsOf(rows, e.OperationHash)) = 1
    /\ Stored(rows, e)

AppliedHashes ==
    { source[j].hash : j \in { k \in 1..Len(source) :
                                 source[k].status = "applied" } }

FetchedPages ==
    { loops[l].page : l \in Loops } \cup { index.page, prod.page }
        \cup { chans.pages[i] : i \in 1..Len(chans.pages) }

\* C13: an operation whose status is not "applied" never reaches the store
\* on any ingestion path: every stored row, every buffered row and every
\* fetched page comes from applied operations only, and the conversion of
\* any slice of the source yields rows of applied operations only.
C13_OnlyAppliedReachStore ==
    /\ Identities(store) \subseteq AppliedHashes
    /\ \A i \in 1..Len(hist.buffer) :
          hist.buffer[i].OperationHash \in AppliedHashes
    /\ \A p \in FetchedPages : \A i \in 1..Len(p) : p[i].status = "applied"
    /\ \A a, b \in 1..Len(source) :
          PageIdentities(SubSeq(source, a, b)) \subseteq AppliedHashes

\* C13: a SaveBatch has stored an operation that follows a failed one
C13_FailedOperationSkipped ==
    /\ ret.op = "SaveBatch" /\ ~ret.err
    /\ \E j \in 1..Len(source), i \in 1..Len(store) :
          /\ source[j].status = "failed"
          /\ store[i].operation_hash > source[j].hash

(***************************************************************************)
(* Backfill pipeline claims, under SpecBackfill.                           *)
(***************************************************************************)
\* the page the producer holds while its send has not completed
InHand == IF prod.pc = "send" THEN <<prod.page>> ELSE <<>>

RECURSIVE Flat(_)
Flat(pages) == IF Len(pages) = 0 THEN <<>> ELSE Head(pages) \o Flat(Tail(pages))

Flushed == Flat([ i \in 1..Len(hist.flushes) |-> hist.flushes[i].rows ])

\* C15: every batch indexHistorical hands to SaveBatch is non-empty and is
\* either a threshold flush, made when the buffer has reached the
\* threshold, or the final flush, made when the page channel is closed;
\* there is at most one final flush and it is the last; while the run goes
\* on, the flushed batches followed by the buffer are the converted events
\* received, in order and once each, so in a run that returns nil every
\* converted event was handed to SaveBatch in exactly one flush.
C15_EachEventFlushedOnce ==
    /\ \A i \in 1..Len(hist.flushes) :
          /\ Len(hist.flushes[i].rows) > 0
          /\ ~hist.flushes[i].final =>
                Len(hist.flushes[i].rows) >= FlushThreshold
          /\ hist.flushes[i].final =>
                /\ i = Len(hist.flushes)
                /\ hist.pc \in {"verify", "returned"}
                /\ Len(hist.flushes[i].rows) < FlushThreshold
    /\ Len(hist.buffer) < FlushThreshold
    /\ hist.pc = "running" =>
          Flushed \o hist.buffer
            = convertToDomainDelegations(Flat(hist.received))
    /\ hist.result = "nil" =>
          Flushed = convertToDomainDelegations(Flat(prod.fetched))

\* C15: a run over three pages or more has returned nil after a threshold
\* flush and a final flush of the remainder
C15_ThresholdThenFinal ==
    /\ hist.result = "nil"
    /\ prod.ended = "exhausted"
    /\ Len(hist.flushes) = 2
    /\ ~hist.flushes[1].final
    /\ hist.flushes[2].final

\* C16: a backfill whose context was done before the source returned an
\* empty page (the producer ended on the done context) returns an error.
C16_CutShortReturnsError ==
    (hist.pc = "returned" /\ prod.ended = "cancelled")
        => hist.result = "error"

\* C16: the deadline has passed and the producer has ended on it while the
\* consumer is still running
C16_CutShortWhileRunning ==
    /\ hist.pc = "running"
    /\ ctxDone
    /\ prod.ended = "cancelled"
    /\ chans.pagesClosed

(***************************************************************************)
(* Failure handling of the poll loop, under SpecPollFair.                  *)
(***************************************************************************)
TickFailures == {"db_error", "fetch_error", "save_error"}

InTick(l) == loops[l].pc \in {"read", "fetch", "save"}

\* C17: a failure of GetLastIndexedLevel, of the fetch or of SaveBatch in
\* a tick ends that tick only: the loop goes back to its select, it never
\* exits without a stop, and the next tick of the timer starts another
\* pollOnce.
C17_TickFailureKeepsLoop ==
    /\ [](loops[1].pc \in {"first", "read", "fetch", "save", "select"})
    /\ [][InTick(1) => (InTick(1)' \/ loops'[1].pc = "select")]_vars
    /\ (loops[1].pc = "select" /\ loops[1].outcome \in TickFailures)
          ~> (loops[1].pc = "read")

\* C17: a pollOnce is running after a tick that failed
C17_PollAfterFailedTick ==
    /\ InTick(1)
    /\ loops[1].outcome \in TickFailures

(***************************************************************************)
(* Backfill failure inside StartPolling, under SpecStart.                  *)
(***************************************************************************)
BackfillFailedIn(c) ==
    /\ starts[c] = "backfill"
    /\ hist.pc = "returned"
    /\ hist.result = "error"

\* C18: whatever indexHistorical returns inside StartPolling, the call goes
\* on to create the ticker and start the poll loop, and it returns nil:
\* after a failed backfill the call reaches its nil return, and a call that
\* has returned nil has left a ticker and a started loop behind.
C18_BackfillFailureStillPolls ==
    /\ [][\A c \in 1..MaxCalls :
             (starts[c] = "backfill" /\ starts'[c] # "backfill")
                => starts'[c] = "ticker"]_vars
    /\ \A c \in 1..MaxCalls :
          [](starts[c] = "nil" =>
                /\ pollingTicker \in 1..Len(tickers)
                /\ loops[c].ticker \in 1..Len(tickers)
                /\ loops[c].pc # "none")
    /\ \A c \in 1..MaxCalls : BackfillFailedIn(c) ~> (starts[c] = "nil")

\* C18: StartPolling has returned nil with the poll loop started after
\* its indexHistorical returned an error
C18_PollingAfterFailedBackfill ==
    /\ starts[1] = "nil"
    /\ hist.result = "error"
    /\ loops[1].pc = "first"
    /\ tickers # <<>>

(***************************************************************************)
(* Retry claims, under SpecClient.                                         *)
(***************************************************************************)
\* a response with a 5xx status or 429
TransientFailure(r) == ~r.err /\ (r.code \in 500..599 \/ r.code = 429)

Success(r) == ~r.err /\ r.code = 200

\* C19: when the first k-1 attempts of a call get a 5xx or 429 response
\* and the k-th gets a success, with k at most the configured maximum, the
\* call returns without error the payload of the k-th attempt after
\* exactly k attempts.
C19_RetryToSuccess ==
    \A k \in 1..MaxRetries :
        ( /\ http.pc = "returned"
          /\ \A i \in 1..(k - 1) : TransientFailure(http.script[i])
          /\ Success(http.script[k]) )
        => /\ http.result = "ok"
           /\ http.payload = k
           /\ http.attempts = k

\* C19: two 500 responses, then a success, and the call has returned
C19_TwoFailuresThenSuccess ==
    /\ http.pc = "returned"
    /\ http.script[1].code = 500
    /\ http.script[2].code = 500
    /\ Success(http.script[3])
    /\ http.attempts = 3
    /\ http.payload = 3

\* a response with a 4xx status other than 429
PermanentFailure(r) == ~r.err /\ r.code \in 400..499 /\ r.code # 429

\* C20: when the first response to a call has a 4xx status other than 429
\* the call makes exactly one attempt, never waits for a retry, and returns
\* an error.
C20_PermanentFailureNotRetried ==
    (http.pc # "idle" /\ PermanentFailure(http.script[1]))
        => /\ http.attempts <= 1
           /\ http.pc # "wait"
           /\ http.pc = "returned" =>
                 (http.attempts = 1 /\ http.result = "error")

\* C20: a call answered 404 has returned
C20_NotFoundReturned ==
    /\ http.pc = "returned"
    /\ http.script[1].code = 404
    /\ http.attempts = 1
    /\ http.result = "error"

AlwaysTransient ==
    \A i \in 1..Len(http.script) : TransientFailure(http.script[i])

\* C21: against a source that answers every attempt with a 5xx or 429, a
\* call makes at most MaxRetries retries after its first attempt, then
\* returns an error and never a payload; it does return.
C21_RetriesBoundedThenSurfaced ==
    /\ [](http.attempts <= MaxRetries + 1)
    /\ [](AlwaysTransient =>
            /\ http.result # "ok"
            /\ http.payload = 0
            /\ http.pc = "returned" =>
                  (http.result = "error" /\ http.attempts = MaxRetries + 1))
    /\ (AlwaysTransient ~> (http.pc = "returned"))

\* C21: a call answered 503 and then 429 at every retry has returned
C21_GaveUp ==
    /\ http.pc = "returned"
    /\ AlwaysTransient
    /\ http.script[1].code = 503
    /\ http.script[2].code = 429
    /\ http.attempts = MaxRetries + 1
    /\ http.result = "error"

(***************************************************************************)
(* Atomicity of SaveBatch, under SpecStore.                                *)
(***************************************************************************)
\* the last event of the batch with the identity of its i-th event
LastOf(ds, i) ==
    ds[CHOOSE j \in 1..Len(ds) :
          /\ ds[j].OperationHash = ds[i].OperationHash
          /\ \A k \in (j + 1)..Len(ds) :
                ds[k].OperationHash # ds[i].OperationHash]

\* C22: a SaveBatch that returns an error, whatever step failed, leaves
\* the store exactly as it was; a SaveBatch that returns nil leaves every
\* event of the batch in the store (for an identity that occurs twice in
\* the batch, its later event).
C22_SaveBatchAllOrNothing ==
    /\ [](\A ds \in Batches, fault \in Faults :
            LET r == SaveBatch(schema, store, ds, fault) IN
            /\ r.err => r.rows = store
            /\ ~r.err => \A i \in 1..Len(ds) : Stored(r.rows, LastOf(ds, i)))
    /\ [][(ret'.op = "SaveBatch" /\ ret'.err) => store' = store]_vars

\* C22: a SaveBatch has returned an error on a table that holds rows
C22_FailedOnNonEmptyStore ==
    /\ schema = MigratedSchema
    /\ metadata = NoMetadata
    /\ ret.op = "SaveBatch"
    /\ ret.err
    /\ Len(store) = 2

(***************************************************************************)
(* The cursor record, under SpecPoll.                                      *)
(***************************************************************************)
\* C23: once the engine has persisted a batch, the cursor record holds the
\* highest level stored and the timestamp of the most recent stored event.
C23_CursorRecordTracksStore ==
    (ret.op = "SaveBatch" /\ ~ret.err /\ Len(store) > 0)
        => /\ GetIndexingMetadata(metadata).last_indexed_level
                = GetLastIndexedLevel(store)
           /\ GetIndexingMetadata(metadata).last_indexed_timestamp
                = Set(LastTimestamp(store))

\* C23: a poll tick has persisted a batch of new events
C23_TickPersistedBatch ==
    /\ loops[1].outcome = "saved"
    /\ ret.op = "SaveBatch" /\ ~ret.err
    /\ ret.conflicts = 0
    /\ Len(store) > 0

(***************************************************************************)
(* IndexDelegations, under SpecIndex.                                      *)
(***************************************************************************)
\* C24: IndexDelegations asks for the page after every non-empty page it
\* saved, from the level after that page's last event, and returns nil
\* only after the source returned an empty page.
C24_FetchesUntilEmptyPage ==
    /\ \A i \in 1..(Len(index.requests) - 1) :
          /\ index.requests[i].len > 0
          /\ index.requests[i + 1].level = index.requests[i].last + 1
    /\ (index.pc = "returned" /\ index.result = "nil")
          => /\ Len(index.requests) > 0
             /\ index.requests[Len(index.requests)].len = 0

\* C24: a call has saved a page shorter than the page size and returned
C24_ShortPageSaved ==
    /\ index.pc = "returned"
    /\ index.result = "nil"
    /\ Len(index.requests) > 0
    /\ index.requests[Len(index.requests)].len \in 1..(IndexBatchSize - 1)
    /\ ret.op = "SaveBatch" /\ ~ret.err

(***************************************************************************)
(* Service.GetStats.  An amount is decimal text: a sequence of characters, *)
(* each a digit 0..9, Minus, or Letter (any character that is neither).    *)
(* The running total is a Go int64, kept as Limbs limbs of 16 bits, least  *)
(* significant first, in two's complement: sums wrap at 2^64 as the        *)
(* machine's do.                                                           *)
(***************************************************************************)
Letter == 10
Minus == 11
LimbBase == 65536
Limbs == 4

\* the longest decimal text of an int64 magnitude, and math.MaxInt64
MaxInt64Digits == 19
MaxInt64 == <<9, 2, 2, 3, 3, 7, 2, 0, 3, 6, 8, 5, 4, 7, 7, 5, 8, 0, 7>>

RECURSIVE Carry(_, _, _)
Carry(x, i, c) ==
    IF i > Limbs THEN <<>>
    ELSE <<(x[i] + c) % LimbBase>>
         \o Carry(x, i + 1, (x[i] + c) \div LimbBase)

Zero64 == Carry([i \in 1..Limbs |-> 0], 1, 0)

Min64 == Carry([i \in 1..Limbs |-> IF i = Limbs THEN LimbBase \div 2 ELSE 0], 1, 0)

\* a + b in int64: the carry out of the top limb is lost
Add64(a, b) == Carry([i \in 1..Limbs |-> a[i] + b[i]], 1, 0)

\* 10 * a + d, for a digit d
TimesTenPlus(a, d) == Carry([i \in 1..Limbs |-> 10 * a[i]], 1, d)

Neg64(a) == Carry([i \in 1..Limbs |-> LimbBase - 1 - a[i]], 1, 1)

IsNeg64(a) == a[Limbs] >= LimbBase \div 2

IsDigits(s) == \A i \in 1..Len(s) : s[i] \in 0..9

RECURSIVE StripZeros(_)
StripZeros(s) ==
    IF Len(s) > 0 /\ s[1] = 0 THEN StripZeros(Tail(s)) ELSE s

RECURSIVE Magnitude(_)
Magnitude(s) ==
    IF Len(s) = 0 THEN Zero64
    ELSE TimesTenPlus(Magnitude(SubSeq(s, 1, Len(s) - 1)), s[Len(s)])

\* strconv.ParseInt(s, 10, 64): a syntax error for text that is not an
\* optionally signed run of digits, a range error outside int64
ParseInt(s) ==
    LET neg == Len(s) > 0 /\ s[1] = Minus
        body == IF neg THEN Tail(s) ELSE s
        sig == StripZeros(body)
        m == Magnitude(sig)
        syntax == Len(body) = 0 \/ ~IsDigits(body)
        range == \/ Len(sig) > MaxInt64Digits
                 \/ IsNeg64(m) /\ ~(neg /\ m = Min64)
    IN IF syntax \/ range THEN [err |-> TRUE, value |-> Zero64]
       ELSE [err |-> FALSE, value |-> IF neg THEN Neg64(m) ELSE m]

\* long division of an unsigned 64-bit value by ten, top limb first
RECURSIVE Rem10(_, _)
Rem10(x, i) ==
    IF i > Limbs THEN 0 ELSE (Rem10(x, i + 1) * LimbBase + x[i]) % 10

Quot10(x) ==
    Carry([i \in 1..Limbs |-> (Rem10(x, i + 1) * LimbBase + x[i]) \div 10], 1, 0)

RECURSIVE FormatUnsigned(_)
FormatUnsigned(x) ==
    IF Quot10(x) = Zero64 THEN <<Rem10(x, 1)>>
    ELSE Append(FormatUnsigned(Quot10(x)), Rem10(x, 1))

\* strconv.FormatInt(x, 10)
FormatInt64(x) ==
    IF IsNeg64(x) THEN <<Minus>> \o FormatUnsigned(Neg64(x))
    ELSE FormatUnsigned(x)

\* the loop of GetStats over delegations[1..i]
RECURSIVE totalAmount(_, _)
totalAmount(delegations, i) ==
    IF i = 0 THEN Zero64
    ELSE LET amount == ParseInt(delegations[i].Amount)
         IN IF amount.err THEN totalAmount(delegations, i - 1)
            ELSE Add64(totalAmount(delegations, i - 1), amount.value)

GetStats(rows, fault) ==
    LET delegations == FindAll(rows)
    IN IF fault THEN [op |-> "GetStats", err |-> TRUE, conflicts |-> 0]
       ELSE [op |-> "GetStats", err |-> FALSE, conflicts |-> 0,
             total_delegations |-> Len(delegations),
             unique_delegators |->
                 Cardinality({ delegations[i].Delegator :
                                 i \in 1..Len(delegations) }),
             total_amount |->
                 FormatInt64(totalAmount(delegations, Len(delegations)))]

(***************************************************************************)
(* GetStats over stores of up to MaxStatRows rows whose amounts are the    *)
(* texts of the service's GetStats tests: small amounts, math.MaxInt64,    *)
(* the integer after it, "invalid" and "".                                 *)
(***************************************************************************)
StatAmounts ==
    { <<1>>, FormatInt(5), MaxInt64, Append(SubSeq(MaxInt64, 1, 18), 8),
      <<Letter>>, <<>> }

StatRow(h, a) ==
    [Row(Delegation(h, [level |-> 9, delegator |-> "tz1a", amount |-> 5]))
        EXCEPT !.amount = a]

StatStores ==
    UNION { { [i \in 1..n |-> StatRow(i, f[i])] : f \in [1..n -> StatAmounts] } :
            n \in 0..MaxStatRows }

InitStats ==
    /\ schema = MigratedSchema
    /\ metadata = NoMetadata
    /\ store \in StatStores
    /\ ret = NoRet
    /\ source = <<>>
    /\ now = BlockTimeOf(0)
    /\ startLevel = 0
    /\ historical = FALSE
    /\ IdleService

CallGetStats ==
    \E fault \in BOOLEAN :
        /\ ret' = GetStats(store, fault)
        /\ UNCHANGED <<schema, store, metadata, srcVars, svcVars, loops,
                       bfVars, index>>

NextStats == CallGetStats

SpecStats == InitStats /\ [][NextStats]_vars

\* the sum of two unsigned decimal texts, digit by digit from the right
DigitAt(s, k) == IF k <= Len(s) THEN s[Len(s) + 1 - k] ELSE 0

RECURSIVE DecimalSum(_, _, _, _)
DecimalSum(a, b, k, c) ==
    IF k > Len(a) /\ k > Len(b) THEN (IF c = 0 THEN <<>> ELSE <<c>>)
    ELSE LET v == DigitAt(a, k) + DigitAt(b, k) + c
         IN Append(DecimalSum(a, b, k + 1, v \div 10), v % 10)

\* the exact sum of the amounts of rows[1..i] that are decimal integers
RECURSIVE ExactTotal(_, _)
ExactTotal(rows, i) ==
    IF i = 0 THEN <<0>>
    ELSE IF Len(rows[i].amount) = 0 \/ ~IsDigits(rows[i].amount)
         THEN ExactTotal(rows, i - 1)
         ELSE LET t == StripZeros(DecimalSum(ExactTotal(rows, i - 1),
                                             rows[i].amount, 1, 0))
              IN IF Len(t) = 0 THEN <<0>> ELSE t

\* C25: total_amount is the exact decimal sum of the stored amounts that
\* are integers, unparsable amounts skipped, also beyond the signed 64-bit
\* range; it is never a wrapped-around value.
C25_TotalAmountExact ==
    (ret.op = "GetStats" /\ ~ret.err)
        => ret.total_amount = ExactTotal(store, Len(store))

\* C25: GetStats has summed math.MaxInt64 and 1, the amounts of the
\* service's "very large amounts" test
C25_SummedPastMaxInt64 ==
    /\ ret.op = "GetStats" /\ ~ret.err
    /\ Len(store) = 2
    /\ store[1].amount = MaxInt64
    /\ store[2].amount = <<1>>

\* amounts within int64 and unparsable amounts only: the total is exact
TotalExactWithinInt64 ==
    (/\ ret.op = "GetStats" /\ ~ret.err
     /\ \A i \in 1..Len(store) : Len(store[i].amount) < MaxInt64Digits)
        => ret.total_amount = ExactTotal(store, Len(store))

(***************************************************************************)
(* Repository.Save, under SpecStore.  ret keeps the delegator and amount   *)
(* of the delegation the call was given and the kind of call: "fault" when *)
(* the database failed, else "insert" for an identity the store did not    *)
(* hold and "update" for one it did.                                       *)
(***************************************************************************)
\* C26: Save of a delegation whose identity is not yet stored, on the
\* migrated schema and a healthy database, returns no error and the
\* delegation is then returned by FindAll(nil) with the same delegator and
\* amount; Save binds one value to each parameter of its insert statement.
C26_SaveStoresNewDelegation ==
    (ret.op = "Save" /\ ret.kind = "insert" /\ schema = MigratedSchema)
        => /\ ~ret.err
           /\ SaveArgs = SaveParams
           /\ \E j \in 1..Len(store) :
                 /\ FindAll(store)[j].Delegator = ret.Delegator
                 /\ FindAll(store)[j].Amount = ret.Amount

\* C26: Save was called on a healthy database with a delegation whose
\* identity the non-empty store did not hold
C26_SaveOfNewIdentity ==
    /\ ret.op = "Save" /\ ret.kind = "insert"
    /\ schema = MigratedSchema
    /\ Len(store) > 0

(***************************************************************************)
(* The HTTP handlers.  A response is a status code and a JSON body; the    *)
(* service's answer to a handler is its value or an error, whose text is   *)
(* the repository's wrapping prefix followed by the driver's message.      *)
(***************************************************************************)
\* EXTRACT(YEAR FROM timestamp) of unix seconds, by the civil calendar
YearOf(timestamp) ==
    LET z == timestamp \div 86400 + 719468
        era == z \div 146097
        doe == z - era * 146097
        yoe == (doe - doe \div 1460 + doe \div 36524 - doe \div 146096) \div 365
        doy == doe - (365 * yoe + yoe \div 4 - yoe \div 100)
        mp == (5 * doy + 2) \div 153
    IN yoe + era * 400 + (IF mp < 10 THEN 0 ELSE 1)

\* Repository.FindAll(year) with a year filter; FindAll(rows) is FindAll(nil)
FindAllOfYear(rows, year) ==
    SelectSeq(FindAll(rows), LAMBDA d : YearOf(d.Timestamp) = year)

\* messages a failing database driver may produce
DriverErrors ==
    { "connection refused", "context deadline exceeded",
      "dial postgres://tezos:secret@db:5432/delegations: no route to host" }

\* what Service.GetDelegations(year) returns; year is Unset for nil
ServiceGetDelegations(rows, year, failure) ==
    IF failure # Unset
    THEN [err |-> Set(<<"failed to query delegations: ", failure[1]>>),
          delegations |-> <<>>]
    ELSE [err |-> Unset,
          delegations |-> IF year = Unset THEN FindAll(rows)
                          ELSE FindAllOfYear(rows, year[1])]

\* the "year" query values: absent, not a number, or a number
YearQueries ==
    { [text |-> "absent"], [text |-> "invalid"] }
        \cup { [text |-> "number", year |-> y] : y \in {2017, 2021, 2022, 2101} }

HandlerGetDelegations(rows, query, failure) ==
    IF query.text = "invalid"
    THEN [code |-> 400,
          body |-> [error |-> "Invalid year parameter. Must be a valid YYYY format"]]
    ELSE IF query.text = "number" /\ (query.year < 2018 \/ query.year > 2100)
    THEN [code |-> 400, body |-> [error |-> "Year must be between 2018 and 2100"]]
    ELSE LET r == ServiceGetDelegations(rows,
                      IF query.text = "number" THEN Set(query.year) ELSE Unset,
                      failure)
         IN IF r.err # Unset
            THEN [code |-> 500, body |-> [error |-> "Failed to retrieve delegations"]]
            ELSE [code |-> 200, body |-> [data |-> r.delegations]]

HandlerGetHealth(rows, failure) ==
    LET r == ServiceGetDelegations(rows, Unset, failure)
    IN IF r.err # Unset
       THEN [code |-> 503, body |-> [status |-> "unhealthy", error |-> r.err[1]]]
       ELSE [code |-> 200,
             body |-> [status |-> "healthy",
                       total_delegations |-> Len(r.delegations)]]

HandlerGetReadiness(rows, failure) ==
    LET r == ServiceGetDelegations(rows, Unset, failure)
    IN IF r.err # Unset
       THEN [code |-> 503, body |-> [status |-> "not ready", error |-> r.err[1]]]
       ELSE [code |-> 200, body |-> [status |-> "ready"]]

HandlerGetStats(rows, failure) ==
    LET stats == GetStats(rows, failure # Unset)
    IN IF stats.err
       THEN [code |-> 500, body |-> [error |-> "Failed to retrieve statistics"]]
       ELSE [code |-> 200,
             body |-> [total_delegations |-> stats.total_delegations,
                       unique_delegators |-> stats.unique_delegators,
                       total_amount |-> stats.total_amount]]

(***************************************************************************)
(* Two executions of one request against one store that differ at most in  *)
(* the message of the driver's error: ret keeps both responses.            *)
(***************************************************************************)
Failures == { <<Unset, Unset>> }
                \cup { <<Set(a), Set(b)>> : a \in DriverErrors, b \in DriverErrors }

Served(route, failures, first, second) ==
    [op |-> route, err |-> failures[1] # Unset, conflicts |-> 0,
     failures |-> failures, responses |-> <<first, second>>]

ServeDelegations ==
    \E query \in YearQueries, f \in Failures :
        /\ ret' = Served("/xtz/delegations", f,
                         HandlerGetDelegations(store, query, f[1]),
                         HandlerGetDelegations(store, query, f[2]))
        /\ UNCHANGED <<schema, store, metadata, srcVars, svcVars, loops,
                       bfVars, index>>

ServeHealth ==
    \E f \in Failures :
        /\ ret' = Served("/health", f, HandlerGetHealth(store, f[1]),
                         HandlerGetHealth(store, f[2]))
        /\ UNCHANGED <<schema, store, metadata, srcVars, svcVars, loops,
                       bfVars, index>>

ServeReadiness ==
    \E f \in Failures :
        /\ ret' = Served("/ready", f, HandlerGetReadiness(store, f[1]),
                         HandlerGetReadiness(store, f[2]))
        /\ UNCHANGED <<schema, store, metadata, srcVars, svcVars, loops,
                       bfVars, index>>

ServeStats ==
    \E f \in Failures :
        /\ ret' = Served("/stats", f, HandlerGetStats(store, f[1]),
                         HandlerGetStats(store, f[2]))
        /\ UNCHANGED <<schema, store, metadata, srcVars, svcVars, loops,
                       bfVars, index>>

Routes == {"/xtz/delegations", "/health", "/ready", "/stats"}

NextHttp == ServeDelegations \/ ServeHealth \/ ServeReadiness \/ ServeStats

\* the stores the requests are served from
HttpStores ==
    { rows \in StatStores :
        \A i \in 1..Len(rows) : rows[i].amount \in {<<1>>, <<Letter>>} }

InitHttp ==
    /\ schema = MigratedSchema
    /\ metadata = NoMetadata
    /\ store \in HttpStores
    /\ ret = NoRet
    /\ source = <<>>
    /\ now = BlockTimeOf(0)
    /\ startLevel = 0
    /\ historical = FALSE
    /\ IdleService

SpecHttp == InitHttp /\ [][NextHttp]_vars

\* C27: no response depends on the text of an internal error: two
\* executions of a request that differ only in the error the service
\* returned answer /xtz/delegations, /health, /ready and /stats alike.
C27_ResponsesIgnoreErrorText ==
    ret.op \in Routes => ret.responses[1] = ret.responses[2]

\* C27: /health was asked twice while the database failed, with two
\* different driver messages
C27_HealthFailedTwoWays ==
    /\ ret.op = "/health"
    /\ ret.err
    /\ ret.failures[1] # ret.failures[2]

\* /xtz/delegations and /stats answer alike whatever the error's text
ErrorTextHiddenOnDataRoutes ==
    ret.op \in {"/xtz/delegations", "/stats"}
        => ret.responses[1] = ret.responses[2]

(***************************************************************************)
(* StartPolling and the work it starts, under SpecStart.                   *)
(***************************************************************************)
\* C28: StartPolling is non-blocking: no call of it is ever held until
\* ingestion work ends, so a call that has not yet returned is never
\* waiting inside a running backfill.
C28_StartPollingNeverWaits ==
    \A c \in 1..MaxCalls : ~(starts[c] = "backfill" /\ hist.pc = "running")

\* C28: a StartPolling call with historical indexing on has returned nil
\* after indexHistorical ran
C28_ReturnedAfterBackfill ==
    /\ historical
    /\ starts[1] = "nil"
    /\ hist.runs = 1
    /\ hist.pc = "returned"

(***************************************************************************)
(* What a poll tick asks the source for, under SpecPoll.                   *)
(***************************************************************************)
\* what the source answers to a request from a level, or from thirty days
\* back when the level is 0
AnswerFrom(level) ==
    IF level = 0
    THEN GetDelegationsSince(source, now - ThirtyDays, SeedLimit)
    ELSE GetDelegationsFromLevel(source, level + 1, PollLimit)

TickFailed == {"db_error", "fetch_error", "save_error"}

\* C29: every tick reads GetLastIndexedLevel() at its start and derives
\* its fetch from the store alone: what it gets is the source's answer to
\* a request by timestamp, thirty days back and with the seed page size,
\* when the stored level is 0, and otherwise to a request from exactly
\* that level plus one; a failed tick leaves the stored level as it was,
\* so the tick after it asks from the same bound; a tick that saves its
\* page into an empty store leaves one row per event and the page's
\* highest level as the highest stored level.
C29_TickFetchesFromStoredLevel ==
    [][/\ (loops[1].pc = "read" /\ loops'[1].pc = "fetch")
            => loops'[1].lastLevel = GetLastIndexedLevel(store)
       /\ (loops[1].pc = "fetch" /\ loops'[1].pc = "save")
            => loops'[1].page = AnswerFrom(GetLastIndexedLevel(store))
       /\ (loops[1].pc = "fetch" /\ loops'[1].pc = "select"
           /\ loops'[1].outcome = "empty")
            => AnswerFrom(GetLastIndexedLevel(store)) = <<>>
       /\ (loops[1].pc # "select" /\ loops'[1].pc = "select"
           /\ loops'[1].outcome \in TickFailed)
            => /\ store' = store
               /\ GetLastIndexedLevel(store') = GetLastIndexedLevel(store)
       /\ (loops[1].pc = "save" /\ loops'[1].pc = "select"
           /\ loops'[1].outcome = "saved" /\ store = <<>>)
            => /\ Len(store') = Len(loops[1].page)
               /\ GetLastIndexedLevel(store')
                    = MaxOf({ loops[1].page[i].level :
                                i \in 1..Len(loops[1].page) })
      ]_vars

\* C29: the tick after a failed tick has read a stored level above 0 and
\* holds the page the source answered with
C29_AskedAgainAfterFailedTick ==
    /\ loops[1].pc = "save"
    /\ loops[1].outcome \in {"fetch_error", "save_error"}
    /\ loops[1].lastLevel > 0
    /\ loops[1].lastLevel = GetLastIndexedLevel(store)

(***************************************************************************)
(* One poll loop against a server that may or may not apply the status     *)
(* parameter: with statusFilter off a page holds operations of any status  *)
(* and convertToDomainDelegations is what drops the ones not applied.      *)
(***************************************************************************)
InitGauge ==
    /\ schema = MigratedSchema
    /\ metadata = NoMetadata
    /\ ret = NoRet
    /\ source \in Sources(MaxSource)
    /\ \E k \in 0..Len(source) : store = Ingested(source, k)
    /\ now \in { BlockTimeOf(TopLevel(source)) }
    /\ startLevel = GetLastIndexedLevel(store)
    /\ historical = FALSE
    /\ pollingStarted = TRUE
    /\ stopClosed = FALSE
    /\ pollingTicker = 1
    /\ tickers = << [stopped |-> FALSE, pending |-> FALSE] >>
    /\ panicked = FALSE
    /\ gauge = GetLastIndexedLevel(store)
    /\ starts = [c \in 1..MaxCalls |-> IF c = 1 THEN "nil" ELSE "idle"]
    /\ loops = [l \in Loops |->
                  IF l = 1 THEN [NoLoop EXCEPT !.pc = "first", !.ticker = 1]
                  ELSE NoLoop]
    /\ NoBackfill
    /\ index = NoIndex
    /\ http = NoCall
    /\ statusFilter \in BOOLEAN

SpecGauge == InitGauge /\ [][NextPoll]_vars

\* the gauge rule of C30, for the loop whose ticks change the gauge
GaugeFollowsStore ==
    /\ (loops[1].pc # "select" /\ loops'[1].pc = "select")
          => gauge' <= GetLastIndexedLevel(store')
    /\ (loops[1].pc \in {"fetch", "save"} /\ gauge' > loops[1].lastLevel)
          => /\ loops[1].pc = "save"
             /\ loops'[1].outcome = "saved"
             /\ ret'.op = "SaveBatch" /\ ~ret'.err

\* C30: the LastIndexedLevel gauge never reports progress that was not
\* durably made: when a poll tick ends, however it ends and whatever its
\* page held, the gauge is at most the highest stored level, and within a
\* tick it rises above the level read at the start only by a successful
\* SaveBatch.
C30_GaugeNeverAheadOfStore == [][GaugeFollowsStore]_vars

\* C30: a tick got a page from the level after the stored one in which no
\* operation is applied, and is about to save its conversion
C30_PageAllDropped ==
    /\ loops[1].pc = "save"
    /\ loops[1].lastLevel > 0
    /\ Len(loops[1].page) > 0
    /\ Len(convertToDomainDelegations(loops[1].page)) = 0

\* with a server that applies the status parameter the gauge rule holds
GaugeFollowsStoreWhenFiltered == [][statusFilter => GaugeFollowsStore]_vars

(***************************************************************************)
(* The polling-error counter                                               *)
(***************************************************************************)
\* C31: every poll tick that ended because GetLastIndexedLevel, the fetch
\* (GetDelegationsSince on the empty store, GetDelegationsFromLevel on the
\* cursor branch) or SaveBatch failed incremented the polling-error
\* counter exactly once
C31_EveryTickFailureCounted ==
    \A l \in Loops :
       loops[l].outcome \in TickFailures => loops[l].errors = 1

\* a tick has ended on a failed SaveBatch
C31_TickEndedOnSaveFailure ==
    /\ loops[1].pc = "select"
    /\ loops[1].outcome = "save_error"
    /\ ret.op = "SaveBatch" /\ ret.err

\* what the code does count: the level read, always
LevelReadFailureCounted ==
    \A l \in Loops : loops[l].outcome = "db_error" => loops[l].errors = 1

(***************************************************************************)
(* One run of the backfill pipeline with both goroutines scheduled: the    *)
(* producer of Client.GetHistoricalDelegations and the consumer of         *)
(* indexHistorical each take their next step when they can.  The deadline  *)
(* of the context may pass but is not awaited.                             *)
(***************************************************************************)
Producer ==
    \/ ProdLoop
    \/ \E ok \in BOOLEAN : ProdFetch(ok)
    \/ ProdSend
    \/ ProdCloseErrorChan
    \/ ProdClosePagesChan

Consumer ==
    \/ \E fault \in Faults : ConsPage(fault)
    \/ \E fault \in Faults : ConsClosed(fault)
    \/ ConsError
    \/ ConsCtxDone

NextPipeline ==
    \/ \E findOk \in BOOLEAN : IndexHistoricalCall(findOk)
    \/ Producer
    \/ Consumer
    \/ \E fault \in VerifyFaults : VerifySync(fault)
    \/ Timeout

FairPipeline ==
    /\ WF_vars(Producer)
    /\ WF_vars(Consumer)
    /\ WF_vars(\E fault \in VerifyFaults : VerifySync(fault))

SpecPipelineFair == InitBackfill /\ [][NextPipeline]_vars /\ FairPipeline

\* the producer has met one of its reasons to stop: an empty page or a
\* fetch error (ended), or its context is cancelled
ProducerShouldStop ==
    /\ prod.pc \notin {"none", "exited"}
    /\ (prod.ended # "none" \/ ctxDone)

\* C32: once the producer has seen an empty page or a fetch error, or its
\* context is cancelled, it eventually closes the page channel and the
\* error channel, also when the page channel is full and the consumer
\* has stopped receiving
C32_ProducerClosesItsOutput ==
    ProducerShouldStop ~> (chans.pagesClosed /\ chans.errsClosed)

\* the consumer has returned while the producer holds a page it cannot send
C32_BlockedOnFullChannel ==
    /\ prod.pc = "send"
    /\ Len(chans.pages) = ChanCap
    /\ hist.pc = "returned"
    /\ ctxDone

\* the producer does close both channels whenever it is not inside the send
ClosesUnlessSending ==
    (ProducerShouldStop /\ prod.pc # "send")
       ~> ((chans.pagesClosed /\ chans.errsClosed) \/ prod.pc = "send")

(***************************************************************************)
(* The requests of the streaming producer                                  *)
(***************************************************************************)
\* the pages that left the producer: received by the consumer or waiting
\* in the channel
Published == hist.received \o chans.pages

\* C33: the producer's first request has offset 0 and each later one the
\* number of events of all pages returned before it; every request has
\* the same timestamp lower bound (the run's start date), the page size
\* and the ascending sort by id; the pages published are the non-empty
\* pages fetched, in fetch order, once each, all but the one the producer
\* still holds; after an empty page no request follows.
C33_SuccessiveOffsetPages ==
    /\ \A i \in 1..Len(prod.requests) :
          /\ prod.requests[i].Offset = Len(Flat(Take(prod.fetched, i - 1)))
          /\ prod.requests[i].TimestampGte = Set(hist.startDate)
          /\ prod.requests[i].LevelGte = Unset
          /\ prod.requests[i].Limit = HistPageSize
          /\ prod.requests[i].Sort = <<"id.asc">>
    /\ \A i \in 1..Len(prod.fetched) :
          /\ Len(prod.fetched[i]) > 0
          /\ prod.fetched[i] = GetDelegations(source, prod.requests[i])
    /\ Published = Take(prod.fetched, Len(Published))
    /\ Len(Published) = Len(prod.fetched) - Len(InHand)
    /\ Len(prod.fetched) <= Len(prod.requests)
    /\ Len(prod.requests) <= Len(prod.fetched) + 1
    /\ Len(prod.requests) = Len(prod.fetched) + 1 =>
          /\ prod.ended # "none"
          /\ prod.pc \in {"closeErr", "closePages", "exited"}
    /\ prod.ended = "exhausted" =>
          /\ Len(prod.requests) = Len(prod.fetched) + 1
          /\ GetDelegations(source, prod.requests[Len(prod.requests)]) = <<>>

\* the producer has ended on the empty page after three pages or more
C33_EmptyPageAfterPages ==
    /\ prod.ended = "exhausted"
    /\ prod.pc = "exited"
    /\ Len(prod.requests) >= 4
    /\ prod.requests[3].Offset = 2 * HistPageSize

(***************************************************************************)
(* Backfill before polling                                                 *)
(***************************************************************************)
\* the poll loop of call c exists: StartPolling has run `go s.pollLoop()`
Polling(c) == loops[c].pc # "none"

\* the goroutine started by GetHistoricalDelegations has not returned
ProducerRunning == prod.pc \notin {"none", "exited"}

\* C34: with historical indexing enabled no poll loop runs before
\* indexHistorical has returned, and polling is never entered while the
\* backfill's consumer or its producer is still running
C34_BackfillPrecedesPolling ==
    \A c \in 1..MaxCalls :
       Polling(c) =>
          /\ historical => hist.pc = "returned"
          /\ hist.pc # "running"
          /\ ~ProducerRunning

\* polling has begun after a backfill whose consumer returned an error
\* while the producer still held a page
C34_PollingBesideProducer ==
    /\ Polling(1)
    /\ hist.pc = "returned"
    /\ hist.result = "error"
    /\ prod.pc = "send"

\* the part the code keeps: the consumer, and indexHistorical with it,
\* have returned before polling begins
PollingAfterIndexHistorical ==
    \A c \in 1..MaxCalls : Polling(c) => hist.pc = "returned"

(***************************************************************************)
(* Verification after the backfill                                         *)
(***************************************************************************)
\* what verifySyncCompleteness finds missing for the run's start date
Shortfall == TzktCount(hist.startDate) - DbCount(store, hist.startDate)

\* C35: when the pipeline has completed without error, indexHistorical
\* returns nil whatever verifySyncCompleteness reports, and neither the
\* verification nor anything after it in that run fetches or upserts
C35_VerificationNeverFatal ==
    /\ [][(hist.pc = "verify" /\ hist' # hist /\ hist'.pc # "idle") =>
             /\ hist'.pc = "returned"
             /\ hist'.result = "nil"
             /\ store' = store
             /\ prod' = prod
             /\ chans' = chans]_vars
    /\ [][(hist.pc = "returned" /\ hist.result = "nil"
              /\ hist'.pc = "returned") =>
             /\ hist' = hist
             /\ store' = store
             /\ prod' = prod]_vars
    /\ [](hist.pc = "verify" => prod.pc = "exited" /\ chans.pagesClosed)

\* indexHistorical has returned nil although rows are missing
C35_NilDespiteShortfall ==
    /\ hist.pc = "returned"
    /\ hist.result = "nil"
    /\ hist.processed > 0
    /\ Shortfall > 0

(***************************************************************************)
(* One Client.GetDelegations call made with a context that can end while   *)
(* the call waits for the rate limiter.                                    *)
(***************************************************************************)
InitLimiter ==
    /\ schema = MigratedSchema
    /\ metadata = NoMetadata
    /\ store = <<>>
    /\ ret = NoRet
    /\ source = <<>>
    /\ now = BlockTimeOf(0)
    /\ startLevel = 0
    /\ historical = FALSE
    /\ pollingStarted = FALSE
    /\ stopClosed = FALSE
    /\ pollingTicker = 0
    /\ tickers = <<>>
    /\ panicked = FALSE
    /\ gauge = GetLastIndexedLevel(store)
    /\ starts = [c \in 1..MaxCalls |-> "idle"]
    /\ loops = [l \in Loops |-> NoLoop]
    /\ NoBackfill
    /\ index = NoIndex
    /\ \E sc \in Scripts, t \in 0..Burst :
          http = [NoCall EXCEPT !.script = sc, !.tokens = t,
                               !.ctx = "pending"]
    /\ statusFilter = TRUE

NextLimiter ==
    \/ ClientCall
    \/ \E granted \in BOOLEAN : LimiterWait(granted)
    \/ TokenRefill
    \/ CtxCancel
    \/ HttpAttempt
    \/ RetryWait
    \/ ClientReturn

SpecLimiter == InitLimiter /\ [][NextLimiter]_vars

\* C36: a call sends no HTTP request before the rate limiter has granted
\* it a token, taken from the bucket; while the bucket is empty the call
\* waits; a call whose context ended while it waited and that got no
\* token returns an error without having sent a request
C36_TokenBeforeRequest ==
    /\ [](http.attempts > 0 => http.granted)
    /\ [](http.pc \in {"attempt", "wait", "respond"} => http.granted)
    /\ []((http.pc = "returned" /\ ~http.granted) =>
             /\ http.ctx = "cancelled"
             /\ http.result = "error"
             /\ http.attempts = 0)
    /\ []((http.pc = "returned" /\ http.ctx = "cancelled") =>
             /\ http.result = "error"
             /\ http.attempts = 0)
    /\ [][(~http.granted /\ http'.granted) =>
             /\ http.pc = "limiter"
             /\ http.tokens > 0
             /\ http'.tokens = http.tokens - 1]_vars
    /\ [][(http.pc = "limiter" /\ http.tokens = 0 /\ http.ctx # "cancelled") =>
             http'.pc = "limiter"]_vars

\* the context ended while the call waited on an empty bucket, and the
\* call has returned the limiter's error
C36_CancelledWhileWaiting ==
    /\ http.pc = "returned"
    /\ http.ctx = "cancelled"
    /\ ~http.granted
    /\ http.tokens = 0
    /\ http.result = "error"
    /\ http.attempts = 0

(***************************************************************************)
(* Restarting a Service: the lifecycle with its goroutines scheduled.      *)
(* The timers keep firing, every poll loop takes its next step when it     *)
(* can, and a StartPolling call past its guard runs to its return; when    *)
(* StartPolling and StopPolling are called is up to the caller.            *)
(***************************************************************************)
FairLife ==
    /\ \A t \in 1..MaxCalls : WF_vars(TickerFires(t))
    /\ \A c \in 1..MaxCalls :
          /\ WF_vars(StartBackfillReturns(c))
          /\ WF_vars(StartTicker(c))
          /\ WF_vars(StartGo(c))
    /\ \A l \in Loops :
          /\ WF_vars(LoopFirst(l))
          /\ WF_vars(LoopTick(l))
          /\ WF_vars(\E ok \in BOOLEAN : PollRead(l, ok))
          /\ WF_vars(\E ok \in BOOLEAN : PollFetch(l, ok))
          /\ WF_vars(\E fault \in Faults : PollSave(l, fault))

SpecLifeFair == InitLife /\ [][NextLife]_vars /\ FairLife

\* StartPolling has returned nil twice with a StopPolling between the two
\* calls, and StopPolling has not been called since
Restarted ==
    /\ \A c \in 1..MaxCalls : starts[c] = "nil"
    /\ stopClosed
    /\ pollingStarted
    /\ Alive

\* C37: after StartPolling, StopPolling and a second StartPolling that
\* returned nil, and for as long as StopPolling is not called again, a
\* poll tick runs on the timer again and again
C37_RestartedServiceKeepsPolling ==
    Restarted ~> (~pollingStarted \/ ~Alive \/ \E l \in Loops : InTick(l))

\* the restarted service is left without a poll loop
C37_RestartedWithoutLoop ==
    /\ Restarted
    /\ \A l \in Loops : loops[l].pc = "exited"
    /\ \E t \in 1..Len(tickers) : ~tickers[t].stopped

(***************************************************************************)
(* Termination of the backfill pipeline, under SpecPipelineFair.           *)
(***************************************************************************)
\* C38: whatever the source answers (pages, the empty page, an error) and
\* whatever SaveBatch returns, and however producer and consumer are
\* interleaved, a backfill whose pipeline has started ends: the consumer
\* returns and indexHistorical returns
C38_PipelineTerminates ==
    /\ (hist.pc \in {"running", "verify"}) ~> (hist.pc = "returned")
    /\ [](hist.pc = "returned" => hist.result \in {"nil", "error", "skipped"})

\* the pipeline has ended after the consumer drained a full channel behind
\* a producer that was waiting to send
C38_ReturnedAfterFullChannel ==
    /\ hist.pc = "returned"
    /\ hist.result = "nil"
    /\ prod.pc = "exited"
    /\ Len(hist.received) > ChanCap + 1

(***************************************************************************)
(* Progress of the cursor, under SpecGauge.                                *)
(***************************************************************************)
\* a tick of the cursor branch ends with a successful SaveBatch
CursorTickSaved ==
    /\ loops[1].pc = "save"
    /\ loops[1].lastLevel > 0
    /\ Len(loops[1].page) > 0
    /\ loops'[1].pc = "select"
    /\ loops'[1].outcome = "saved"

SavedTickAdvances ==
    CursorTickSaved => GetLastIndexedLevel(store') > loops[1].lastLevel

\* C39: a poll tick on a non-empty store that fetched a non-empty page and
\* whose SaveBatch succeeded leaves the highest stored level strictly
\* above the level read at the start of the tick
C39_SavedTickAdvancesCursor == [][SavedTickAdvances]_vars

\* a tick has ended on a successful SaveBatch of nothing: the store's
\* level stands where the tick read it while the source holds operations
\* above it
C39_SavedButSameLevel ==
    /\ loops[1].pc = "select"
    /\ loops[1].outcome = "saved"
    /\ ret.op = "SaveBatch" /\ ~ret.err
    /\ GetLastIndexedLevel(store) > 0
    /\ gauge = GetLastIndexedLevel(store) + 1
    /\ Len(GetDelegationsFromLevel(source, gauge, PollLimit)) > 0

\* with a server that applies the status parameter every saved tick of
\* the cursor branch advances
SavedTickAdvancesWhenFiltered == [][statusFilter => SavedTickAdvances]_vars

(***************************************************************************)
(* Reading back what was stored, under SpecStore.                          *)
(***************************************************************************)
\* Repository.GetDelegationsByTimeRange(start, end): the rows with
\* start <= timestamp <= end, latest first, scanned as FindAll scans them
GetDelegationsByTimeRange(rows, start, end) ==
    LET inRange(r) == r.timestamp >= start /\ r.timestamp <= end
    IN FindAll(SelectSeq(rows, inRange))

HashesOf(delegations) ==
    { delegations[i].OperationHash : i \in 1..Len(delegations) }

StoredTimestamps == { store[i].timestamp : i \in 1..Len(store) }

\* C40: the delegations FindAll returns carry the operation hashes under
\* which the rows were stored, so their identities are exactly the stored
\* identities; the same for GetDelegationsByTimeRange over the rows of
\* its range
C40_ReadKeepsIdentity ==
    /\ HashesOf(FindAll(store)) = Identities(store)
    /\ \A start \in StoredTimestamps, end \in StoredTimestamps :
          HashesOf(GetDelegationsByTimeRange(store, start, end))
            = { store[i].operation_hash :
                  i \in { j \in 1..Len(store) :
                            /\ store[j].timestamp >= start
                            /\ store[j].timestamp <= end } }

\* a SaveBatch has stored two identities and returned nil
C40_TwoIdentitiesStored ==
    /\ ret.op = "SaveBatch" /\ ~ret.err
    /\ Cardinality(Identities(store)) = 2
    /\ Len(FindAll(store)) = 2

\* what the read does keep: one delegation per row, with the row's
\* delegator, amount, level, block hash and timestamp
ReadKeepsOtherFields ==
    /\ Len(FindAll(store)) = Len(store)
    /\ \A i \in 1..Len(store) :
          \E j \in 1..Len(store) :
             /\ FindAll(store)[j].Delegator = store[i].delegator
             /\ FindAll(store)[j].Amount = store[i].amount
             /\ FindAll(store)[j].Level = store[i].level
             /\ FindAll(store)[j].BlockHash = store[i].block_hash
             /\ FindAll(store)[j].Timestamp = store[i].timestamp

====
